---- MODULE Spec2Model ----
(***************************************************************************)
(* YM7 Hobby: the real-time core.  The WebSocket server (connection        *)
(* registry, authentication, heartbeat, close handling), the security gate *)
(* (size, structure, rate limits, content validation, sanitisation), the   *)
(* private-message router (WebSocket and REST) and the relational store    *)
(* (users.status, buddies, blocks, messages).                              *)
(*                                                                         *)
(* Every async handler is a task: its synchronous prefix runs in the       *)
(* action that starts it, and every `await db.query(...)` is one further   *)
(* step (the query executes and the code up to the next await runs).       *)
(* Node runs one handler at a time, so the steps of different tasks        *)
(* interleave only at the awaits.                                          *)
(***************************************************************************)
EXTENDS Integers, Sequences, FiniteSets, TLC

(* ------------------------------ bounds -------------------------------- *)
NUsers == 2
MaxConns == 2
MaxTasks == 2
MaxMsgs == 2
MaxNow == 1
MaxText == 3

Users == 1..NUsers
Conns == 1..MaxConns
Ips == {"ip1"}

NoUser == 0
NoConn == 0

(* ------------------------- program constants -------------------------- *)
MAX_MESSAGE_SIZE == 10240
MAX_CONNECTIONS_PER_IP == 10
MAX_CONNECTIONS_PER_USER == 3
MAX_BODY_LENGTH == 1000
CONNECTION_WINDOW == 60000
SWEEP_HORIZON == 3600000

(* ------------------------------ text ---------------------------------- *)
(* A text is a sequence of characters, each a one-character string; the    *)
(* quotes, the backtick, the backslash, the tab and the newline are        *)
(* written by name.                                                        *)
DQuote == "DQUOTE"
Apos == "APOS"
BackTick == "BACKTICK"
BackSlash == "BACKSLASH"
Rep(ch, n) == [i \in 1..n |-> ch]

Lowers == {"a","b","c","d","e","h","i","j","l","m","n","o","p","r","s","t","u","v","x"}
Uppers == {"S","O","N"}
Digits == {"0","1","2","3","5","6","7","9"}
WhiteSpace == {" ", "TAB", "NEWLINE"}

\* the /i flag of the patterns: upper-case letters match their lower-case form
Lower(ch) ==
    CASE ch = "S" -> "s"
      [] ch = "O" -> "o"
      [] ch = "N" -> "n"
      [] OTHER -> ch

\* \w of a JavaScript regular expression
IsWordChar(ch) == ch \in Lowers \cup Uppers \cup Digits \cup {"_"}

\* pattern.test(content) for a literal, case-insensitive pattern
TestLiteral(pat, s) ==
    \E i \in 1..Len(s) :
        /\ i + Len(pat) - 1 <= Len(s)
        /\ \A j \in 1..Len(pat) : Lower(s[i + j - 1]) = pat[j]

\* /on\w+=/i
TestOnHandler(s) ==
    \E i \in 1..Len(s) :
        /\ i + 1 <= Len(s)
        /\ Lower(s[i]) = "o"
        /\ Lower(s[i + 1]) = "n"
        /\ \E k \in 1..Len(s) :
              /\ i + 2 + k <= Len(s)
              /\ \A j \in 1..k : IsWordChar(s[i + 1 + j])
              /\ s[i + 2 + k] = "="

dangerousPatterns ==
    { <<"<","s","c","r","i","p","t">>,
      <<"j","a","v","a","s","c","r","i","p","t",":">>,
      <<"d","a","t","a",":","t","e","x","t","/","h","t","m","l">>,
      <<"v","b","s","c","r","i","p","t",":">>,
      <<"e","x","p","r","e","s","s","i","o","n","(">>,
      <<"u","r","l","(","j","a","v","a","s","c","r","i","p","t",":">> }

\* the character class of the special-character count: angle brackets,
\* quotes, backtick, braces, square brackets, parentheses and semicolon
SpecialChars == {"<", ">", Apos, DQuote, BackTick, "{", "}", "[", "]", "(", ")", ";"}

CountSpecial(s) == Cardinality({i \in 1..Len(s) : s[i] \in SpecialChars})

\* security.validateMessageContent: no dangerous pattern, and the share of
\* special characters is not above 0.3 (0/0 is NaN, and NaN > 0.3 is false)
validateMessageContent(content) ==
    /\ \A pat \in dangerousPatterns : ~TestLiteral(pat, content)
    /\ ~TestOnHandler(content)
    /\ ~(10 * CountSpecial(content) > 3 * Len(content))

RECURSIVE Flatten(_)
Flatten(ss) ==
    IF Len(ss) = 0 THEN <<>>
    ELSE IF Len(ss) = 1 THEN ss[1]
    ELSE Flatten(SubSeq(ss, 1, Len(ss) \div 2))
            \o Flatten(SubSeq(ss, Len(ss) \div 2 + 1, Len(ss)))

RECURSIVE TrimLeft(_)
TrimLeft(s) ==
    IF s # <<>> /\ Head(s) \in WhiteSpace THEN TrimLeft(Tail(s)) ELSE s

RECURSIVE TrimRight(_)
TrimRight(s) ==
    IF s # <<>> /\ s[Len(s)] \in WhiteSpace
    THEN TrimRight(SubSeq(s, 1, Len(s) - 1))
    ELSE s

\* String.prototype.trim
Trim(s) == TrimRight(TrimLeft(s))

\* the six replacements of sanitizeMessageContent, & first
EscapeChar(ch) ==
    CASE ch = "&"  -> <<"&","a","m","p",";">>
      [] ch = "<"  -> <<"&","l","t",";">>
      [] ch = ">"  -> <<"&","g","t",";">>
      [] ch = DQuote -> <<"&","q","u","o","t",";">>
      [] ch = Apos -> <<"&","#","x","2","7",";">>
      [] ch = "/"  -> <<"&","#","x","2","F",";">>
      [] OTHER -> <<ch>>

\* security.sanitizeMessageContent: HTML-escape, then trim
sanitizeMessageContent(content) ==
    Trim(Flatten([i \in 1..Len(content) |-> EscapeChar(content[i])]))

\* validator.js escape, as used by the REST messageValidation chain
ValidatorEscapeChar(ch) ==
    CASE ch = BackSlash -> <<"&","#","x","5","C",";">>
      [] ch = BackTick -> <<"&","#","9","6",";">>
      [] OTHER -> EscapeChar(ch)

\* REST body pipeline: sanitizeInput trims, messageValidation checks the
\* length (1..1000) and then trims and escapes
restLengthOk(message) ==
    Len(Trim(message)) >= 1 /\ Len(Trim(message)) <= MAX_BODY_LENGTH

messageValidation(message) ==
    Flatten([i \in 1..Len(Trim(message)) |-> ValidatorEscapeChar(Trim(message)[i])])

\* validateMessageStructure for private_message: a numeric recipient and a
\* string body of at most 1000 characters
validateMessageStructure(m) ==
    CASE m.type = "authenticate" -> m.token.kind # "absent"
      [] m.type = "private_message" -> m.toUserId # NoUser /\ Len(m.message) <= MAX_BODY_LENGTH
      [] m.type \in {"typing_start", "typing_stop"} -> m.toUserId # NoUser
      [] m.type = "ping" -> TRUE
      [] OTHER -> FALSE

\* the CHECK constraints of the messages table
messagesCheck(from, to, body) ==
    /\ Len(body) >= 1
    /\ Len(body) <= MAX_BODY_LENGTH
    /\ from # to

(* The chat bodies the clients send.                                       *)
BodyHi == <<"h","i">>
BodyHo == <<"h","o">>
BodyBlank == <<" ">>
BodyAmp == Rep("&", 201)
BodyScript == <<"<","S","c","r","i","p","t",">">>
BodyMarkup == <<" ","<","b",">",DQuote,"a",Apos,"/","&","a","m","p"," ","h","i">>
Bodies == {BodyHi, BodyHo, BodyBlank, BodyAmp, BodyScript, BodyMarkup}

\* what the validators and sanitisers make of these bodies
contentValid == [b \in Bodies |-> validateMessageContent(b)]
sanitized == [b \in Bodies |-> sanitizeMessageContent(b)]
restValid == [b \in Bodies |-> restLengthOk(b)]
restEscaped == [b \in Bodies |-> messageValidation(b)]

Tokens ==
    {[kind |-> "empty", id |-> NoUser], [kind |-> "invalid", id |-> NoUser]}
    \cup {[kind |-> k, id |-> u] : k \in {"access", "refresh"}, u \in Users}

\* the user that sends in the routing and gate specifications, and the rest
Sender == CHOOSE u \in Users : \A v \in Users : u <= v
Others == Users \ {Sender}

\* the keys of security.messageRates; a missing key reads as the empty list
MsgTypes == {"authenticate", "private_message", "typing_start", "typing_stop", "ping"}
RateKeys == Ips \X MsgTypes

(* ------------------------------ state --------------------------------- *)
VARIABLES
    ws,                 \* the WebSocket objects: [Conns -> record]
    wsConnections,      \* middleware/auth registry: user id -> connection
    connections,        \* SecureWebSocketServer.connections: user id -> connection
    userConnections,    \* security.userConnections: user id -> count
    connectionAttempts, \* security.connectionAttempts: ip -> timestamps
    messageRates,       \* security.messageRates: <<ip, type>> -> timestamps
    now,                \* Date.now(), in milliseconds
    status,             \* users.status
    buddies,            \* rows of the buddies table: <<user_id, buddy_user_id>>
    blocks,             \* rows of the blocks table: <<blocker_id, blocked_id>>
    messages,           \* rows of the messages table
    nextMsgId,          \* the SERIAL of messages.id
    requests,           \* buddy_requests: <<from_user_id, to_user_id>> -> status
    tasks,              \* the async handlers that are suspended at an await
    last                \* the handler invocation that finished in the last step, or Idle

connVars == <<ws, wsConnections, connections, userConnections>>
gateVars == <<connectionAttempts, messageRates, now>>
dbVars == <<status, buddies, blocks, messages, nextMsgId, requests>>
vars == <<ws, wsConnections, connections, userConnections, connectionAttempts,
          messageRates, now, status, buddies, blocks, messages, nextMsgId, requests,
          tasks, last>>

\* a WebSocket object before the connection exists
\* (at is the time at which the connection was admitted)
NoWs ==
    [readyState |-> "NONE", ip |-> "", isAuthenticated |-> FALSE, userId |-> NoUser,
     isAlive |-> FALSE, heartbeat |-> FALSE, handlers |-> FALSE, at |-> 0]

\* the fields the 'connection' callback sets, with the three handlers installed
NewWs(ip) ==
    [readyState |-> "OPEN", ip |-> ip, isAuthenticated |-> FALSE, userId |-> NoUser,
     isAlive |-> TRUE, heartbeat |-> TRUE, handlers |-> TRUE, at |-> 0]

\* ws.send reaches the peer when the socket is open and is dropped
\* otherwise; what a handler has sent is kept in its out and dlv fields
Sent(c, reply) ==
    IF c # NoConn /\ ws[c].readyState = "OPEN" THEN <<reply>> ELSE <<>>

\* ws.close and ws.terminate: an open socket starts closing; the 'close'
\* event follows later
WsClose(w, c) ==
    IF w[c].readyState = "OPEN" THEN [w EXCEPT ![c].readyState = "CLOSING"] ELSE w

(* A suspended or finished handler invocation.                             *)
(*   c, u    the connection (NoConn for a REST request) and the acting user *)
(*   to      the other user                                                *)
(*   raw     the body as submitted; body: as passed to the INSERT          *)
(*   rows    the buddy ids a SELECT returned                               *)
(*   row     the id of the message row this invocation inserted, or 0      *)
(*   out     the replies the caller has received from this invocation; for *)
(*           a close handler, the status it has written                    *)
(*   dlv     the connections the incoming event was sent to                *)
(*   edge, blk   whether a buddy edge / the recipient's block existed when *)
(*           the handler queried for it                                    *)
(*   blk0, blk1  whether the recipient's block was in place, with no block *)
(*           request of the recipient still running, when the handler      *)
(*           started; whether it was in place at the buddy query           *)
(*   off0    whether the recipient had no registered open connection when  *)
(*           the handler started                                           *)
(*   type, size  for the message handler: the type and the byte length of  *)
(*           the payload; stage: the last gate the payload reached         *)
(*   fail    for a fan-out: the connection whose send threw, or NoConn     *)
(*   wrote   the status this invocation has written to the store, or ""    *)
(*   msg     the message field of the private_message events it has sent   *)
(*   from    the fromUserId of the typing events it has sent               *)
Task(kind, pc, c, u) ==
    [kind |-> kind, pc |-> pc, c |-> c, u |-> u, to |-> NoUser, raw |-> <<>>,
     body |-> <<>>, rows |-> {}, row |-> 0, out |-> <<>>, dlv |-> {},
     edge |-> FALSE, blk |-> FALSE, blk0 |-> FALSE, blk1 |-> FALSE,
     off0 |-> FALSE, type |-> "", size |-> 0, stage |-> "", fail |-> NoConn,
     wrote |-> "", msg |-> <<>>, from |-> NoUser]

\* buddy_requests has UNIQUE(from_user_id, to_user_id): at most one row per
\* ordered pair, "none" where there is no row
NoRequests == [p \in Users \X Users |-> "none"]

Idle == Task("idle", "done", NoConn, NoUser)

Done(t) == [t EXCEPT !.pc = "done"]

CanSpawn == Cardinality(tasks) < MaxTasks

Init ==
    /\ ws = [c \in Conns |-> NoWs]
    /\ wsConnections = [u \in Users |-> NoConn]
    /\ connections = [u \in Users |-> NoConn]
    /\ userConnections = [u \in Users |-> 0]
    /\ connectionAttempts = [ip \in Ips |-> <<>>]
    /\ messageRates = [k \in RateKeys |-> <<>>]
    /\ now = 0
    /\ status = [u \in Users |-> "offline"]
    /\ buddies = {<<a, b>> \in Users \X Users : a # b}
    /\ blocks = {}
    /\ messages = {}
    /\ nextMsgId = 1
    /\ requests = NoRequests
    /\ tasks = {}
    /\ last = Idle

(* ------------------------ connection registry ------------------------- *)
\* a faulty removal that closes the connection on the first call and
\* forgets it only on the next
disconnectInTwoCalls(w, reg, userId) ==
    IF reg[userId] = NoConn THEN [ws |-> w, reg |-> reg]
    ELSE IF w[reg[userId]].readyState = "OPEN"
    THEN [ws |-> WsClose(w, reg[userId]), reg |-> reg]
    ELSE [ws |-> w, reg |-> [reg EXCEPT ![userId] = NoConn]]

\* middleware/auth disconnectUserWebSocket: close and forget the registered
\* connection of userId, if there is one
disconnectUserWebSocket(w, reg, userId) ==
    IF reg[userId] # NoConn
    THEN [ws |-> WsClose(w, reg[userId]), reg |-> [reg EXCEPT ![userId] = NoConn]]
    ELSE [ws |-> w, reg |-> reg]

\* middleware/auth registerWebSocketConnection: close the existing
\* connection of userId, then install c
registerWebSocketConnection(w, reg, userId, c) ==
    [ws |-> IF reg[userId] # NoConn THEN WsClose(w, reg[userId]) ELSE w,
     reg |-> [reg EXCEPT ![userId] = c]]

getWebSocketConnection(userId) == wsConnections[userId]

\* security.checkUserConnectionLimit: the test, and the count it leaves
checkUserConnectionLimit(userId) ==
    userConnections[userId] < MAX_CONNECTIONS_PER_USER

countUserConnection(userId) ==
    [userConnections EXCEPT ![userId] = @ + 1]

\* security.checkConnectionLimit: the attempts of the last minute
recentAttempts(ip) ==
    SelectSeq(connectionAttempts[ip], LAMBDA time : time > now - CONNECTION_WINDOW)

\* a faulty limit that admits one connection more
checkConnectionLimitLoose(ip) == Len(recentAttempts(ip)) <= MAX_CONNECTIONS_PER_IP

checkConnectionLimit(ip) == Len(recentAttempts(ip)) < MAX_CONNECTIONS_PER_IP

\* wss.on('connection'): a refused connection is closed and gets no handler
Connect(c, ip) ==
    /\ ws[c].readyState = "NONE"
    /\ \A k \in 1..(c - 1) : ws[k].readyState # "NONE"
    /\ IF checkConnectionLimit(ip)
       THEN /\ connectionAttempts' =
                   [connectionAttempts EXCEPT ![ip] = Append(recentAttempts(ip), now)]
            /\ ws' = [ws EXCEPT ![c] = [NewWs(ip) EXCEPT !.at = now]]
       ELSE /\ ws' = [ws EXCEPT ![c] = [NoWs EXCEPT !.readyState = "CLOSING", !.ip = ip]]
            /\ UNCHANGED connectionAttempts
    /\ UNCHANGED <<wsConnections, connections, userConnections, messageRates, now>>
    /\ UNCHANGED dbVars
    /\ UNCHANGED tasks /\ last' = Idle

\* a faulty handler that marks the connection authenticated before it
\* verifies the token
handleAuthenticationBindsFirst(c, token) ==
    IF token.kind # "access"
    THEN /\ ws' = WsClose([ws EXCEPT ![c].isAuthenticated = TRUE], c)
         /\ last' = [Task("auth", "done", c, NoUser) EXCEPT !.out = Sent(c, "auth_error")]
         /\ UNCHANGED <<wsConnections, connections, userConnections, tasks>>
    ELSE IF ~checkUserConnectionLimit(token.id)
    THEN /\ ws' = WsClose(ws, c)
         /\ last' = [Task("auth", "done", c, token.id) EXCEPT !.out = <<"closed">>]
         /\ UNCHANGED <<wsConnections, connections, userConnections, tasks>>
    ELSE LET bound == [ws EXCEPT ![c].isAuthenticated = TRUE, ![c].userId = token.id]
             r == registerWebSocketConnection(bound, wsConnections, token.id, c)
         IN  /\ CanSpawn
             /\ userConnections' = countUserConnection(token.id)
             /\ ws' = r.ws
             /\ wsConnections' = r.reg
             /\ connections' = [connections EXCEPT ![token.id] = c]
             /\ tasks' = tasks \cup {Task("auth", "upd", c, token.id)}
             /\ last' = Idle

\* handleAuthentication up to its first await.  A missing, invalid or
\* wrong-class token throws: auth_error and close.  A user at the ceiling
\* is closed.  Otherwise the connection is bound, registered in both maps
\* and the status UPDATE is issued.
handleAuthentication(c, token) ==
    IF token.kind # "access"
    THEN /\ ws' = WsClose(ws, c)
         /\ last' = [Task("auth", "done", c, NoUser) EXCEPT !.out = Sent(c, "auth_error")]
         /\ UNCHANGED <<wsConnections, connections, userConnections, tasks>>
    ELSE IF ~checkUserConnectionLimit(token.id)
    THEN /\ ws' = WsClose(ws, c)
         /\ last' = [Task("auth", "done", c, token.id) EXCEPT !.out = <<"closed">>]
         /\ UNCHANGED <<wsConnections, connections, userConnections, tasks>>
    ELSE LET bound == [ws EXCEPT ![c].isAuthenticated = TRUE, ![c].userId = token.id]
             r == registerWebSocketConnection(bound, wsConnections, token.id, c)
         IN  /\ CanSpawn
             /\ userConnections' = countUserConnection(token.id)
             /\ ws' = r.ws
             /\ wsConnections' = r.reg
             /\ connections' = [connections EXCEPT ![token.id] = c]
             /\ tasks' = tasks \cup {Task("auth", "upd", c, token.id)}
             /\ last' = Idle

\* a faulty handler that goes on to the notification without the UPDATE
AuthUpdateSkipsWrite(t) ==
    /\ t \in tasks /\ t.kind = "auth" /\ t.pc = "upd"
    /\ tasks' = (tasks \ {t}) \cup
                  {[t EXCEPT !.pc = "sel", !.out = Sent(t.c, "auth_success")]}
    /\ UNCHANGED connVars /\ last' = Idle
    /\ UNCHANGED dbVars
    /\ UNCHANGED gateVars

\* handleAuthentication after UPDATE users SET status = 'online': auth_success,
\* then notifyBuddiesStatusChange issues its SELECT
AuthUpdate(t) ==
    /\ t \in tasks /\ t.kind = "auth" /\ t.pc = "upd"
    /\ status' = [status EXCEPT ![t.u] = "online"]
    /\ tasks' = (tasks \ {t}) \cup
                  {[t EXCEPT !.pc = "sel", !.out = Sent(t.c, "auth_success"),
                             !.wrote = "online"]}
    /\ UNCHANGED connVars /\ last' = Idle
    /\ UNCHANGED <<buddies, blocks, messages, nextMsgId, requests>>
    /\ UNCHANGED gateVars

\* the status a handler broadcasts
statusOf(t) == IF t.kind = "auth" THEN "online" ELSE "offline"

\* notifyBuddiesStatusChange: SELECT buddy_user_id FROM buddies WHERE user_id = $1
NotifySelect(t) ==
    /\ t \in tasks /\ t.kind \in {"auth", "close"} /\ t.pc = "sel"
    /\ tasks' = (tasks \ {t}) \cup
                  {[t EXCEPT !.pc = "fan",
                             !.rows = {b \in DOMAIN status : <<t.u, b>> \in buddies}]}
    /\ UNCHANGED <<connVars, gateVars, dbVars>> /\ last' = Idle

\* notifyBuddiesStatusChange: the loop over the rows; a buddy whose entry in
\* this.connections is open gets the event
notifyTargets(t) ==
    {k \in DOMAIN ws : ws[k].readyState = "OPEN" /\ \E b \in t.rows : connections[b] = k}

NotifyFanout(t) ==
    /\ t \in tasks /\ t.kind \in {"auth", "close"} /\ t.pc = "fan"
    /\ tasks' = tasks \ {t}
    /\ last' = [Done(t) EXCEPT !.dlv = notifyTargets(t)]
    /\ UNCHANGED <<connVars, gateVars, dbVars>>

\* notifyBuddiesStatusChange when buddyWs.send throws for the connection f:
\* the loop is inside one try block, so the catch ends it; the buddies the
\* loop had reached before f, in the order the SELECT returned them, have
\* the event
NotifyFanoutThrow(t) ==
    /\ t \in tasks /\ t.kind \in {"auth", "close"} /\ t.pc = "fan"
    /\ \E f \in notifyTargets(t) : \E before \in SUBSET (notifyTargets(t) \ {f}) :
          last' = [Done(t) EXCEPT !.dlv = before, !.fail = f]
    /\ tasks' = tasks \ {t}
    /\ UNCHANGED <<connVars, gateVars, dbVars>>

\* a connection the heartbeat has terminated, before its 'close' event
Terminated(c) ==
    ws[c].readyState = "CLOSING" /\ ws[c].handlers /\ ~ws[c].heartbeat

\* the 'close' event of a connection: the heartbeat's listener clears the
\* timer; the close handler, for a bound connection, deletes the user's
\* entry from this.connections, calls disconnectUserWebSocket and issues
\* the status UPDATE
\* (a handler whose connection the heartbeat had terminated, and so had
\* cleared the timer of before the event, is marked "terminated")
EmitClose(c) ==
    /\ ws[c].readyState \in {"OPEN", "CLOSING"}
    /\ LET closed == [ws EXCEPT ![c].readyState = "CLOSED", ![c].heartbeat = FALSE]
           u == ws[c].userId
       IN  IF ws[c].handlers /\ u # NoUser
           THEN LET r == disconnectUserWebSocket(closed, wsConnections, u)
                IN  /\ CanSpawn
                    /\ connections' = [connections EXCEPT ![u] = NoConn]
                    /\ ws' = r.ws
                    /\ wsConnections' = r.reg
                    /\ tasks' = tasks \cup
                          {[Task("close", "upd", c, u) EXCEPT
                               !.stage = IF Terminated(c) THEN "terminated" ELSE ""]}
           ELSE /\ ws' = closed
                /\ UNCHANGED <<wsConnections, connections, tasks>>
    /\ UNCHANGED userConnections /\ last' = Idle
    /\ UNCHANGED <<gateVars, dbVars>>

\* the close handler after UPDATE users SET status = 'offline'
CloseUpdate(t) ==
    /\ t \in tasks /\ t.kind = "close" /\ t.pc = "upd"
    /\ status' = [status EXCEPT ![t.u] = "offline"]
    /\ tasks' = (tasks \ {t}) \cup
                  {[t EXCEPT !.pc = "sel", !.out = <<"offline">>, !.wrote = "offline"]}
    /\ UNCHANGED <<connVars, gateVars>> /\ last' = Idle
    /\ UNCHANGED <<buddies, blocks, messages, nextMsgId, requests>>

\* the heartbeat timer: a connection that has not answered the last ping is
\* terminated and the timer cleared; otherwise it is pinged
Heartbeat(c) ==
    /\ ws[c].heartbeat
    /\ IF ~ws[c].isAlive
       THEN ws' = [WsClose(ws, c) EXCEPT ![c].heartbeat = FALSE]
       ELSE ws' = [ws EXCEPT ![c].isAlive = FALSE]
    /\ UNCHANGED <<wsConnections, connections, userConnections>>
    /\ UNCHANGED <<gateVars, dbVars, tasks>> /\ last' = Idle

\* ws.on('pong')
Pong(c) ==
    /\ ws[c].readyState = "OPEN" /\ ~ws[c].isAlive
    /\ ws' = [ws EXCEPT ![c].isAlive = TRUE]
    /\ UNCHANGED <<wsConnections, connections, userConnections>>
    /\ UNCHANGED <<gateVars, dbVars, tasks>> /\ last' = Idle

\* POST /logout and /logout-all: disconnectUserWebSocket(req.user.id),
\* whether or not the user has a registered connection
Logout(u) ==
    /\ LET r == disconnectUserWebSocket(ws, wsConnections, u)
       IN  ws' = r.ws /\ wsConnections' = r.reg
    /\ UNCHANGED <<connections, userConnections>>
    /\ UNCHANGED <<gateVars, dbVars, tasks>> /\ last' = Idle


(* --------------------------- relationships ---------------------------- *)
\* a connection that is open, authenticated and bound to user u
Live(k, u) ==
    ws[k].readyState = "OPEN" /\ ws[k].isAuthenticated /\ ws[k].userId = u

LiveConns(u) == {k \in Conns : Live(k, u)}

\* a buddy edge between a and b, in either direction
BuddyEdge(a, b) == <<a, b>> \in buddies \/ <<b, a>> \in buddies

\* blocker has a block edge against blocked
BlockEdge(blocker, blocked) == <<blocker, blocked>> \in blocks

\* blocker's block of blocked is in place and no block request of blocker
\* against blocked is still running
BlockDone(blocker, blocked) ==
    /\ BlockEdge(blocker, blocked)
    /\ ~\E t \in tasks : t.kind = "block" /\ t.u = blocker /\ t.to = blocked

\* u has no registered open connection
Offline(u) ==
    wsConnections[u] = NoConn \/ ws[wsConnections[u]].readyState # "OPEN"

\* a faulty buddy query that always finds a row
areBuddiesAlways(a, b) == {<<a, b>>}

\* SELECT 1 FROM buddies WHERE (user_id = $1 AND buddy_user_id = $2)
\*                          OR (user_id = $2 AND buddy_user_id = $1)
areBuddies(a, b) == {r \in buddies : r = <<a, b>> \/ r = <<b, a>>}

\* SELECT 1 FROM blocks WHERE blocker_id = $1 AND blocked_id = $2
isBlocked(blocker, blocked) == {r \in blocks : r = <<blocker, blocked>>}

\* a faulty lookup that returns the registered connection whatever its
\* readyState
recipientWsAnyState(toUserId) ==
    IF getWebSocketConnection(toUserId) # NoConn
    THEN {getWebSocketConnection(toUserId)}
    ELSE {}

\* the recipient's socket that gets the incoming event: the registered
\* connection, if its readyState is 1
recipientWs(toUserId) ==
    IF getWebSocketConnection(toUserId) # NoConn
       /\ ws[getWebSocketConnection(toUserId)].readyState = "OPEN"
    THEN {getWebSocketConnection(toUserId)}
    ELSE {}

\* a step of a task: t becomes t2, still suspended
Resume(t, t2) == tasks' = (tasks \ {t}) \cup {t2} /\ last' = Idle

\* a step of a task: t returns as t2
Return(t, t2) == tasks' = tasks \ {t} /\ last' = Done(t2)

(* ----------------------- private-message router ----------------------- *)
\* MessageHandler.handlePrivateMessage up to its first await: content
\* validation, sanitisation, and the buddy query is issued
handlePrivateMessage(c, m) ==
    LET toUserId == m.toUserId
        content == m.message
        t == [Task("route", "buddies", c, ws[c].userId) EXCEPT
                 !.to = toUserId, !.raw = content, !.type = m.type, !.size = m.size,
                 !.blk0 = BlockDone(toUserId, ws[c].userId),
                 !.off0 = Offline(toUserId)]
    IN  IF ~contentValid[content]
        THEN /\ last' = [Done(t) EXCEPT !.out = Sent(c, "error:content")]
             /\ UNCHANGED tasks
        ELSE /\ CanSpawn
             /\ tasks' = tasks \cup {[t EXCEPT !.body = sanitized[content]]}
             /\ last' = Idle

\* a faulty router that looks at the block edge before the buddy edge
RouteBuddiesBlockFirst(t) ==
    /\ t \in tasks /\ t.kind = "route" /\ t.pc = "buddies"
    /\ LET u == ws[t.c].userId
           t2 == [t EXCEPT !.edge = BuddyEdge(u, t.to), !.blk1 = BlockEdge(t.to, u),
                           !.blk = BlockEdge(t.to, u)]
       IN  IF isBlocked(t.to, u) # {}
           THEN Return(t, [t2 EXCEPT !.out = Sent(t.c, "error:blocked")])
           ELSE IF areBuddies(u, t.to) = {}
           THEN Return(t, [t2 EXCEPT !.out = Sent(t.c, "error:not_buddies")])
           ELSE Resume(t, [t2 EXCEPT !.pc = "blocked"])
    /\ UNCHANGED <<connVars, gateVars, dbVars>>

\* a faulty router that confirms to the sender after the buddy query, before
\* the row is persisted
RouteBuddiesConfirmsEarly(t) ==
    /\ t \in tasks /\ t.kind = "route" /\ t.pc = "buddies"
    /\ LET u == ws[t.c].userId
           t2 == [t EXCEPT !.edge = BuddyEdge(u, t.to), !.blk1 = BlockEdge(t.to, u)]
       IN  IF areBuddies(u, t.to) = {}
           THEN Return(t, [t2 EXCEPT !.out = Sent(t.c, "error:not_buddies")])
           ELSE Resume(t, [t2 EXCEPT !.pc = "blocked",
                                     !.out = Sent(t.c, "private_message:outgoing")])
    /\ UNCHANGED <<connVars, gateVars, dbVars>>

\* after the buddy query
RouteBuddies(t) ==
    /\ t \in tasks /\ t.kind = "route" /\ t.pc = "buddies"
    /\ LET u == ws[t.c].userId
           t2 == [t EXCEPT !.edge = BuddyEdge(u, t.to), !.blk1 = BlockEdge(t.to, u)]
       IN  IF areBuddies(u, t.to) = {}
           THEN Return(t, [t2 EXCEPT !.out = Sent(t.c, "error:not_buddies")])
           ELSE Resume(t, [t2 EXCEPT !.pc = "blocked"])
    /\ UNCHANGED <<connVars, gateVars, dbVars>>

\* after the block query
RouteBlocked(t) ==
    /\ t \in tasks /\ t.kind = "route" /\ t.pc = "blocked"
    /\ LET u == ws[t.c].userId
           t2 == [t EXCEPT !.blk = BlockEdge(t.to, u)]
       IN  IF isBlocked(t.to, u) # {}
           THEN Return(t, [t2 EXCEPT !.out = Sent(t.c, "error:blocked")])
           ELSE Resume(t, [t2 EXCEPT !.pc = "insert"])
    /\ UNCHANGED <<connVars, gateVars, dbVars>>

\* a faulty router that goes on to deliver although the INSERT failed
RouteInsertThenDeliver(t) ==
    /\ t \in tasks /\ t.kind = "route" /\ t.pc = "insert"
    /\ LET u == ws[t.c].userId
       IN  IF messagesCheck(u, t.to, t.body)
           THEN /\ nextMsgId <= MaxMsgs
                /\ messages' = messages \cup
                      {[id |-> nextMsgId, from |-> u, to |-> t.to,
                        body |-> t.body, read |-> FALSE]}
                /\ nextMsgId' = nextMsgId + 1
                /\ Resume(t, [t EXCEPT !.pc = "deliver", !.row = nextMsgId])
           ELSE /\ Resume(t, [t EXCEPT !.pc = "deliver", !.stage = "insert_failed"])
                /\ UNCHANGED <<messages, nextMsgId>>
    /\ UNCHANGED <<connVars, gateVars, status, buddies, blocks, requests>>

\* INSERT INTO messages: the row is stored, or a CHECK constraint rejects it
\* and the catch block answers
RouteInsert(t) ==
    /\ t \in tasks /\ t.kind = "route" /\ t.pc = "insert"
    /\ LET u == ws[t.c].userId
       IN  IF messagesCheck(u, t.to, t.body)
           THEN /\ nextMsgId <= MaxMsgs
                /\ messages' = messages \cup
                      {[id |-> nextMsgId, from |-> u, to |-> t.to,
                        body |-> t.body, read |-> FALSE]}
                /\ nextMsgId' = nextMsgId + 1
                /\ Resume(t, [t EXCEPT !.pc = "deliver", !.row = nextMsgId])
           ELSE /\ Return(t, [t EXCEPT !.out = Sent(t.c, "error:failed"),
                                       !.stage = "insert_failed"])
                /\ UNCHANGED <<messages, nextMsgId>>
    /\ UNCHANGED <<connVars, gateVars, status, buddies, blocks, requests>>

\* a faulty router that sends its sender no confirmation
RouteDeliverSilent(t) ==
    /\ t \in tasks /\ t.kind = "route" /\ t.pc = "deliver"
    /\ Return(t, [t EXCEPT !.dlv = recipientWs(t.to), !.msg = t.body])
    /\ UNCHANGED <<connVars, gateVars, dbVars>>

\* a faulty router whose events carry the text as it was submitted
RouteDeliverRaw(t) ==
    /\ t \in tasks /\ t.kind = "route" /\ t.pc = "deliver"
    /\ Return(t, [t EXCEPT !.out = Sent(t.c, "private_message:outgoing"),
                           !.dlv = recipientWs(t.to), !.msg = t.raw])
    /\ UNCHANGED <<connVars, gateVars, dbVars>>

\* after the INSERT: the confirmation to the sender and the incoming event
\* to the recipient's registered connection if it is open, both with the
\* sanitised text
RouteDeliver(t) ==
    /\ t \in tasks /\ t.kind = "route" /\ t.pc = "deliver"
    /\ Return(t, [t EXCEPT !.out = Sent(t.c, "private_message:outgoing"),
                           !.dlv = recipientWs(t.to), !.msg = t.body])
    /\ UNCHANGED <<connVars, gateVars, dbVars>>

(* ------------------------------ REST ---------------------------------- *)
\* POST /messages/private: sanitizeInput and messageValidation run first; a
\* body that fails the length rule is answered with 400, otherwise the
\* handler issues the buddy query
RestSend(u, toUserId, message) ==
    /\ LET t == [Task("rest", "buddies", NoConn, u) EXCEPT
                    !.to = toUserId, !.raw = message, !.type = "private_message",
                    !.blk0 = BlockDone(toUserId, u), !.off0 = Offline(toUserId)]
       IN  IF ~restValid[message]
           THEN /\ last' = [Done(t) EXCEPT !.out = <<"400">>]
                /\ UNCHANGED tasks
           ELSE /\ CanSpawn
                /\ tasks' = tasks \cup {[t EXCEPT !.body = restEscaped[message]]}
                /\ last' = Idle
    /\ UNCHANGED <<connVars, gateVars, dbVars>>

RestBuddies(t) ==
    /\ t \in tasks /\ t.kind = "rest" /\ t.pc = "buddies"
    /\ LET t2 == [t EXCEPT !.edge = BuddyEdge(t.u, t.to), !.blk1 = BlockEdge(t.to, t.u)]
       IN  IF areBuddies(t.u, t.to) = {}
           THEN Return(t, [t2 EXCEPT !.out = <<"403:NOT_BUDDIES">>])
           ELSE Resume(t, [t2 EXCEPT !.pc = "blocked"])
    /\ UNCHANGED <<connVars, gateVars, dbVars>>

RestBlocked(t) ==
    /\ t \in tasks /\ t.kind = "rest" /\ t.pc = "blocked"
    /\ LET t2 == [t EXCEPT !.blk = BlockEdge(t.to, t.u)]
       IN  IF isBlocked(t.to, t.u) # {}
           THEN Return(t, [t2 EXCEPT !.out = <<"403:USER_BLOCKED">>])
           ELSE Resume(t, [t2 EXCEPT !.pc = "insert"])
    /\ UNCHANGED <<connVars, gateVars, dbVars>>

RestInsert(t) ==
    /\ t \in tasks /\ t.kind = "rest" /\ t.pc = "insert"
    /\ IF messagesCheck(t.u, t.to, t.body)
       THEN /\ nextMsgId <= MaxMsgs
            /\ messages' = messages \cup
                  {[id |-> nextMsgId, from |-> t.u, to |-> t.to,
                    body |-> t.body, read |-> FALSE]}
            /\ nextMsgId' = nextMsgId + 1
            /\ Resume(t, [t EXCEPT !.pc = "deliver", !.row = nextMsgId])
       ELSE /\ Return(t, [t EXCEPT !.out = <<"500">>, !.stage = "insert_failed"])
            /\ UNCHANGED <<messages, nextMsgId>>
    /\ UNCHANGED <<connVars, gateVars, status, buddies, blocks, requests>>

\* after the INSERT: the event to the recipient's open registered
\* connection, then the 200 response
RestDeliver(t) ==
    /\ t \in tasks /\ t.kind = "rest" /\ t.pc = "deliver"
    /\ Return(t, [t EXCEPT !.out = <<"200">>, !.dlv = recipientWs(t.to)])
    /\ UNCHANGED <<connVars, gateVars, dbVars>>

\* POST /:userId/block up to its first await
Block(u, userId) ==
    /\ LET t == [Task("block", "exists", NoConn, u) EXCEPT !.to = userId]
       IN  IF u = userId
           THEN last' = [Done(t) EXCEPT !.out = <<"400">>] /\ UNCHANGED tasks
           ELSE CanSpawn /\ tasks' = tasks \cup {t} /\ last' = Idle
    /\ UNCHANGED <<connVars, gateVars, dbVars>>

\* after the existing-block query: 400, or the INSERT is issued
BlockExists(t) ==
    /\ t \in tasks /\ t.kind = "block" /\ t.pc = "exists"
    /\ IF isBlocked(t.u, t.to) # {}
       THEN Return(t, [t EXCEPT !.out = <<"400">>])
       ELSE Resume(t, [t EXCEPT !.pc = "insert"])
    /\ UNCHANGED <<connVars, gateVars, dbVars>>

\* INSERT INTO blocks; UNIQUE(blocker_id, blocked_id) rejects a second row
BlockInsert(t) ==
    /\ t \in tasks /\ t.kind = "block" /\ t.pc = "insert"
    /\ IF <<t.u, t.to>> \in blocks
       THEN Return(t, [t EXCEPT !.out = <<"500">>]) /\ UNCHANGED blocks
       ELSE Resume(t, [t EXCEPT !.pc = "delete"]) /\ blocks' = blocks \cup {<<t.u, t.to>>}
    /\ UNCHANGED <<connVars, gateVars, status, buddies, messages, nextMsgId, requests>>

\* DELETE FROM buddies, both directions
BlockDelete(t) ==
    /\ t \in tasks /\ t.kind = "block" /\ t.pc = "delete"
    /\ buddies' = buddies \ {<<t.u, t.to>>, <<t.to, t.u>>}
    /\ Resume(t, [t EXCEPT !.pc = "cancel"])
    /\ UNCHANGED <<connVars, gateVars, status, blocks, messages, nextMsgId, requests>>

\* UPDATE buddy_requests SET status = 'rejected' for the pending requests
\* between the two, then the 200 response
BlockCancel(t) ==
    /\ t \in tasks /\ t.kind = "block" /\ t.pc = "cancel"
    /\ requests' = [p \in DOMAIN requests |->
                       IF p \in {<<t.u, t.to>>, <<t.to, t.u>>} /\ requests[p] = "pending"
                       THEN "rejected" ELSE requests[p]]
    /\ Return(t, [t EXCEPT !.out = <<"200">>])
    /\ UNCHANGED <<connVars, gateVars, status, buddies, blocks, messages, nextMsgId>>

\* POST /:userId/unblock
Unblock(u, userId) ==
    /\ blocks' = blocks \ {<<u, userId>>}
    /\ last' = [Task("unblock", "done", NoConn, u) EXCEPT
                   !.to = userId,
                   !.out = IF <<u, userId>> \in blocks THEN <<"200">> ELSE <<"404">>]
    /\ UNCHANGED <<connVars, gateVars, status, buddies, messages, nextMsgId, requests, tasks>>

\* buddySystem.removeBuddy: both directions are deleted and the other
\* user's registered connection is told
removeBuddy(userId, buddyId) ==
    /\ buddies' = buddies \ {<<userId, buddyId>>, <<buddyId, userId>>}
    /\ last' = [Task("remove", "done", NoConn, userId) EXCEPT
                   !.to = buddyId, !.out = <<"200">>, !.dlv = recipientWs(buddyId)]
    /\ UNCHANGED <<connVars, gateVars, status, blocks, messages, nextMsgId, requests, tasks>>

(* --------------------------- buddy requests --------------------------- *)
\* buddySystem.sendRequest up to its first await: the target user is looked
\* up by e-mail
sendRequest(fromUserId, toUserId) ==
    /\ CanSpawn
    /\ tasks' = tasks \cup {[Task("request", "target", NoConn, fromUserId) EXCEPT
                                !.to = toUserId]}
    /\ last' = Idle
    /\ UNCHANGED <<connVars, gateVars, dbVars>>

\* the target is found; nobody adds oneself; the buddy query is issued
RequestTarget(t) ==
    /\ t \in tasks /\ t.kind = "request" /\ t.pc = "target"
    /\ IF t.u = t.to
       THEN Return(t, [t EXCEPT !.out = <<"SELF_ADD_NOT_ALLOWED">>])
       ELSE Resume(t, [t EXCEPT !.pc = "existing"])
    /\ UNCHANGED <<connVars, gateVars, dbVars>>

\* SELECT 1 FROM buddies WHERE user_id = $1 AND buddy_user_id = $2
RequestExisting(t) ==
    /\ t \in tasks /\ t.kind = "request" /\ t.pc = "existing"
    /\ IF <<t.u, t.to>> \in buddies
       THEN Return(t, [t EXCEPT !.out = <<"ALREADY_BUDDIES">>])
       ELSE Resume(t, [t EXCEPT !.pc = "pending"])
    /\ UNCHANGED <<connVars, gateVars, dbVars>>

\* SELECT ... FROM buddy_requests WHERE from, to AND status = 'pending'
RequestPending(t) ==
    /\ t \in tasks /\ t.kind = "request" /\ t.pc = "pending"
    /\ IF requests[<<t.u, t.to>>] = "pending"
       THEN Return(t, [t EXCEPT !.out = <<"REQUEST_PENDING">>])
       ELSE Resume(t, [t EXCEPT !.pc = "blocked"])
    /\ UNCHANGED <<connVars, gateVars, dbVars>>

\* SELECT 1 FROM blocks WHERE blocker_id = toUserId AND blocked_id = fromUserId
RequestBlocked(t) ==
    /\ t \in tasks /\ t.kind = "request" /\ t.pc = "blocked"
    /\ IF isBlocked(t.to, t.u) # {}
       THEN Return(t, [t EXCEPT !.out = <<"USER_BLOCKED">>])
       ELSE Resume(t, [t EXCEPT !.pc = "insert"])
    /\ UNCHANGED <<connVars, gateVars, dbVars>>

\* INSERT INTO buddy_requests; UNIQUE(from_user_id, to_user_id) rejects a
\* second row for the pair, whatever the status of the first
RequestInsert(t) ==
    /\ t \in tasks /\ t.kind = "request" /\ t.pc = "insert"
    /\ IF requests[<<t.u, t.to>>] # "none"
       THEN /\ Return(t, [t EXCEPT !.out = <<"REQUEST_SEND_FAILED">>])
            /\ UNCHANGED requests
       ELSE /\ requests' = [requests EXCEPT ![<<t.u, t.to>>] = "pending"]
            /\ Return(t, [t EXCEPT !.out = <<"success">>, !.dlv = recipientWs(t.to)])
    /\ UNCHANGED <<connVars, gateVars, status, buddies, blocks, messages, nextMsgId>>

\* buddySystem.acceptRequest up to its first await; the request is the one
\* fromUserId has sent to userId
acceptRequest(userId, fromUserId) ==
    /\ CanSpawn
    /\ tasks' = tasks \cup {[Task("accept", "select", NoConn, userId) EXCEPT
                                !.to = fromUserId]}
    /\ last' = Idle
    /\ UNCHANGED <<connVars, gateVars, dbVars>>

\* SELECT * FROM buddy_requests WHERE id, to_user_id AND status = 'pending'
AcceptSelect(t) ==
    /\ t \in tasks /\ t.kind = "accept" /\ t.pc = "select"
    /\ IF requests[<<t.to, t.u>>] # "pending"
       THEN Return(t, [t EXCEPT !.out = <<"REQUEST_NOT_FOUND">>])
       ELSE Resume(t, [t EXCEPT !.pc = "insert"])
    /\ UNCHANGED <<connVars, gateVars, dbVars>>

\* a faulty accept that inserts the requester's row only
AcceptInsertOneWay(t) ==
    /\ t \in tasks /\ t.kind = "accept" /\ t.pc = "insert"
    /\ IF <<t.to, t.u>> \in buddies
       THEN /\ Return(t, [t EXCEPT !.out = <<"REQUEST_ACCEPT_FAILED">>])
            /\ UNCHANGED buddies
       ELSE /\ buddies' = buddies \cup {<<t.to, t.u>>}
            /\ Resume(t, [t EXCEPT !.pc = "update"])
    /\ UNCHANGED <<connVars, gateVars, status, blocks, messages, nextMsgId, requests>>

\* INSERT INTO buddies VALUES ($1, $2), ($2, $1): one statement, so both
\* rows or, when UNIQUE(user_id, buddy_user_id) rejects one, neither
AcceptInsert(t) ==
    /\ t \in tasks /\ t.kind = "accept" /\ t.pc = "insert"
    /\ IF {<<t.to, t.u>>, <<t.u, t.to>>} \cap buddies # {}
       THEN /\ Return(t, [t EXCEPT !.out = <<"REQUEST_ACCEPT_FAILED">>])
            /\ UNCHANGED buddies
       ELSE /\ buddies' = buddies \cup {<<t.to, t.u>>, <<t.u, t.to>>}
            /\ Resume(t, [t EXCEPT !.pc = "update"])
    /\ UNCHANGED <<connVars, gateVars, status, blocks, messages, nextMsgId, requests>>

\* UPDATE buddy_requests SET status = 'accepted', then both are notified
AcceptUpdate(t) ==
    /\ t \in tasks /\ t.kind = "accept" /\ t.pc = "update"
    /\ requests' = [requests EXCEPT ![<<t.to, t.u>>] = "accepted"]
    /\ Return(t, [t EXCEPT !.out = <<"success">>])
    /\ UNCHANGED <<connVars, gateVars, status, buddies, blocks, messages, nextMsgId>>

\* buddySystem.rejectRequest: UPDATE buddy_requests SET status = 'rejected'
\* WHERE id = $1 AND to_user_id = $2, whatever the status was
rejectRequest(userId, fromUserId) ==
    /\ requests' = [requests EXCEPT ![<<fromUserId, userId>>] =
                       IF @ = "none" THEN @ ELSE "rejected"]
    /\ last' = [Task("reject", "done", NoConn, userId) EXCEPT
                   !.to = fromUserId,
                   !.out = IF requests[<<fromUserId, userId>>] = "none"
                           THEN <<"REQUEST_NOT_FOUND">> ELSE <<"success">>]
    /\ UNCHANGED <<connVars, gateVars, status, buddies, blocks, messages, nextMsgId, tasks>>

\* a db.query of a relationship operation rejects (the database is not
\* reachable, a statement times out): the catch block answers and what the
\* operation has written so far stays
QueryFails(t) ==
    /\ t \in tasks /\ t.kind \in {"request", "accept", "block"}
    /\ Return(t, [t EXCEPT !.out = <<"500">>, !.stage = "query_failed"])
    /\ UNCHANGED <<connVars, gateVars, dbVars>>

\* the rows of the conversation of a and b
conversation(a, b) ==
    {m \in messages : (m.from = a /\ m.to = b) \/ (m.from = b /\ m.to = a)}

\* UPDATE messages SET read = TRUE WHERE to_user_id = $1 AND from_user_id = $2
markRead(currentUserId, userId) ==
    {IF m.to = currentUserId /\ m.from = userId THEN [m EXCEPT !.read = TRUE] ELSE m
        : m \in messages}

\* GET /messages/conversation/:userId up to its first await
Fetch(u, userId) ==
    /\ CanSpawn
    /\ tasks' = tasks \cup {[Task("fetch", "buddies", NoConn, u) EXCEPT !.to = userId]}
    /\ last' = Idle
    /\ UNCHANGED <<connVars, gateVars, dbVars>>

FetchBuddies(t) ==
    /\ t \in tasks /\ t.kind = "fetch" /\ t.pc = "buddies"
    /\ IF areBuddies(t.u, t.to) = {}
       THEN Return(t, [t EXCEPT !.out = <<"403:NOT_BUDDIES">>])
       ELSE Resume(t, [t EXCEPT !.pc = "select"])
    /\ UNCHANGED <<connVars, gateVars, dbVars>>

\* the SELECT of the page and the COUNT
FetchSelect(t) ==
    /\ t \in tasks /\ t.kind = "fetch" /\ t.pc = "select"
    /\ Resume(t, [t EXCEPT !.pc = "mark", !.rows = conversation(t.u, t.to)])
    /\ UNCHANGED <<connVars, gateVars, dbVars>>

\* the UPDATE that marks the incoming rows read, then the response
FetchMark(t) ==
    /\ t \in tasks /\ t.kind = "fetch" /\ t.pc = "mark"
    /\ messages' = markRead(t.u, t.to)
    /\ Return(t, [t EXCEPT !.out = <<"200">>])
    /\ UNCHANGED <<connVars, gateVars, status, buddies, blocks, nextMsgId, requests>>

\* POST /messages/conversation/:userId/read
MarkRead(u, userId) ==
    /\ messages' = markRead(u, userId)
    /\ last' = [Task("read", "done", NoConn, u) EXCEPT !.to = userId, !.out = <<"200">>]
    /\ UNCHANGED <<connVars, gateVars, status, buddies, blocks, nextMsgId, requests, tasks>>

\* DELETE /messages/:messageId: the sender's own row
DeleteMessage(u, messageId) ==
    /\ messages' = {m \in messages : ~(m.id = messageId /\ m.from = u)}
    /\ last' = [Task("delete", "done", NoConn, u) EXCEPT
                   !.row = messageId,
                   !.out = IF \E m \in messages : m.id = messageId /\ m.from = u
                           THEN <<"200">> ELSE <<"404">>]
    /\ UNCHANGED <<connVars, gateVars, status, buddies, blocks, nextMsgId, requests, tasks>>

(* --------------------------- message gate ----------------------------- *)
\* handleTypingIndicator up to its await, where the buddy query is issued
\* with the user id the connection has then; and after the query: the
\* indicator goes to the recipient's open registered connection, with the
\* user id the connection has by then as fromUserId
handleTypingIndicator(c, m) ==
    /\ CanSpawn
    /\ tasks' = tasks \cup {[Task("typing", "buddies", c, ws[c].userId) EXCEPT
                                !.to = m.toUserId, !.type = m.type, !.size = m.size]}
    /\ last' = Idle

TypingBuddies(t) ==
    /\ t \in tasks /\ t.kind = "typing" /\ t.pc = "buddies"
    /\ IF areBuddies(t.u, t.to) = {}
       THEN Return(t, t)
       ELSE Return(t, [t EXCEPT !.edge = TRUE, !.dlv = recipientWs(t.to),
                                !.from = ws[t.c].userId])
    /\ UNCHANGED <<connVars, gateVars, dbVars>>

\* a faulty size check that lets twice the size pass
validateMessageSizeLoose(size) == size <= 2 * MAX_MESSAGE_SIZE

\* security.validateMessageSize, on the byte length of the payload
validateMessageSize(size) == size <= MAX_MESSAGE_SIZE

getMessageRateWindow(type) ==
    CASE type = "private_message" -> 60000
      [] type \in {"typing_start", "typing_stop"} -> 10000
      [] type = "authenticate" -> 30000
      [] OTHER -> 60000

getMessageRateLimit(type) ==
    CASE type = "private_message" -> 60
      [] type \in {"typing_start", "typing_stop"} -> 10
      [] type = "authenticate" -> 5
      [] OTHER -> 60

\* security.checkMessageRateLimit: the timestamps still inside the window,
\* the test, and the list it stores when the message is admitted
recentMessages(ip, type) ==
    SelectSeq(messageRates[<<ip, type>>],
              LAMBDA time : time > now - getMessageRateWindow(type))

\* a faulty limiter that admits one message more
checkMessageRateLimitOffByOne(ip, type) ==
    ~(Len(recentMessages(ip, type)) > getMessageRateLimit(type))

checkMessageRateLimit(ip, type) ==
    ~(Len(recentMessages(ip, type)) >= getMessageRateLimit(type))

recordMessage(ip, type) ==
    [messageRates EXCEPT ![<<ip, type>>] = Append(recentMessages(ip, type), now)]

\* the inbound messages, after JSON.parse; size is the byte length of the
\* payload; type "unparsable" stands for a payload JSON.parse rejects
Msg(type, token, toUserId, message, size) ==
    [type |-> type, token |-> token, toUserId |-> toUserId,
     message |-> message, size |-> size]

NoToken == [kind |-> "absent", id |-> NoUser]

AuthMsg(token) == Msg("authenticate", token, NoUser, <<>>, 100)

ChatMsg(toUserId, message) == Msg("private_message", NoToken, toUserId, message, 100)

\* a faulty dispatcher that hands chat and typing messages to their
\* handlers without looking at ws.isAuthenticated
handleMessageUnchecked(c, m) ==
    CASE m.type = "authenticate" -> handleAuthentication(c, m.token)
      [] m.type = "private_message" ->
            handlePrivateMessage(c, m) /\ UNCHANGED connVars
      [] m.type \in {"typing_start", "typing_stop"} ->
            handleTypingIndicator(c, m) /\ UNCHANGED connVars
      [] m.type = "ping" ->
            /\ last' = [Task("ping", "done", c, ws[c].userId) EXCEPT
                           !.type = m.type, !.size = m.size, !.out = Sent(c, "pong")]
            /\ UNCHANGED <<connVars, tasks>>
      [] OTHER ->
            /\ last' = [Task("unknown", "done", c, ws[c].userId) EXCEPT
                           !.type = m.type, !.size = m.size,
                           !.out = Sent(c, "error:unknown")]
            /\ UNCHANGED <<connVars, tasks>>

\* SecureWebSocketServer.handleMessage
handleMessage(c, m) ==
    CASE m.type = "authenticate" -> handleAuthentication(c, m.token)
      [] m.type = "private_message" ->
            /\ IF ws[c].isAuthenticated
               THEN handlePrivateMessage(c, m)
               ELSE /\ last' = [Task("route", "done", c, NoUser) EXCEPT
                                   !.type = m.type, !.size = m.size,
                                   !.stage = "unauthenticated"]
                    /\ UNCHANGED tasks
            /\ UNCHANGED connVars
      [] m.type \in {"typing_start", "typing_stop"} ->
            /\ IF ws[c].isAuthenticated
               THEN handleTypingIndicator(c, m)
               ELSE /\ last' = [Task("typing", "done", c, NoUser) EXCEPT
                                   !.type = m.type, !.size = m.size,
                                   !.stage = "unauthenticated"]
                    /\ UNCHANGED tasks
            /\ UNCHANGED connVars
      [] m.type = "ping" ->
            /\ last' = [Task("ping", "done", c, ws[c].userId) EXCEPT
                           !.type = m.type, !.size = m.size, !.out = Sent(c, "pong")]
            /\ UNCHANGED <<connVars, tasks>>
      [] OTHER ->
            /\ last' = [Task("unknown", "done", c, ws[c].userId) EXCEPT
                           !.type = m.type, !.size = m.size,
                           !.out = Sent(c, "error:unknown")]
            /\ UNCHANGED <<connVars, tasks>>

\* the 'message' event is emitted for every frame that arrives before the
\* peer's close frame, so also while the server side is closing; a socket
\* that ws.terminate() has destroyed receives nothing any more
Receiving(c) ==
    ws[c].readyState \in {"OPEN", "CLOSING"} /\ ws[c].handlers /\ ~Terminated(c)

\* a message that the gate admits
Dispatch(c, m) ==
    /\ Receiving(c)
    /\ validateMessageSize(m.size) /\ validateMessageStructure(m)
    /\ handleMessage(c, m)
    /\ UNCHANGED <<gateVars, dbVars>>

NextConn ==
    \/ \E c \in Conns, ip \in Ips : Connect(c, ip)
    \/ \E c \in Conns, token \in Tokens : Dispatch(c, AuthMsg(token))
    \/ \E t \in tasks : AuthUpdate(t)
    \/ \E t \in tasks : NotifySelect(t)
    \/ \E t \in tasks : NotifyFanout(t)
    \/ \E c \in Conns : EmitClose(c)
    \/ \E t \in tasks : CloseUpdate(t)
    \/ \E u \in Users : Logout(u)

SpecConn == Init /\ [][NextConn]_vars

\* a faulty handler that counts a message the rate limiter has refused
OnMessageCountsRefused(c, m) ==
    /\ Receiving(c)
    /\ LET g == [Task("gate", "done", c, ws[c].userId) EXCEPT
                    !.type = m.type, !.size = m.size, !.to = m.toUserId]
           refuse(stage, reply) ==
               /\ last' = [g EXCEPT !.stage = stage, !.out = Sent(c, reply)]
               /\ UNCHANGED <<connVars, tasks>>
       IN  IF ~validateMessageSize(m.size)
           THEN /\ ws' = WsClose(ws, c)
                /\ last' = [g EXCEPT !.stage = "size"]
                /\ UNCHANGED <<wsConnections, connections, userConnections,
                               tasks, messageRates>>
           ELSE IF m.type = "unparsable"
           THEN refuse("parse", "error:invalid") /\ UNCHANGED messageRates
           ELSE IF ~validateMessageStructure(m)
           THEN refuse("structure", "error:format") /\ UNCHANGED messageRates
           ELSE IF ~checkMessageRateLimit(ws[c].ip, m.type)
           THEN /\ refuse("rate", "error:rate")
                /\ messageRates' = recordMessage(ws[c].ip, m.type)
           ELSE /\ messageRates' = recordMessage(ws[c].ip, m.type)
                /\ handleMessage(c, m)
    /\ UNCHANGED <<connectionAttempts, now, dbVars>>

\* a faulty handler that asks the rate limiter before it validates the
\* structure
OnMessageRateFirst(c, m) ==
    /\ Receiving(c)
    /\ LET g == [Task("gate", "done", c, ws[c].userId) EXCEPT
                    !.type = m.type, !.size = m.size, !.to = m.toUserId]
           refuse(stage, reply) ==
               /\ last' = [g EXCEPT !.stage = stage, !.out = Sent(c, reply)]
               /\ UNCHANGED <<connVars, tasks>>
       IN  IF ~validateMessageSize(m.size)
           THEN /\ ws' = WsClose(ws, c)
                /\ last' = [g EXCEPT !.stage = "size"]
                /\ UNCHANGED <<wsConnections, connections, userConnections,
                               tasks, messageRates>>
           ELSE IF m.type = "unparsable"
           THEN refuse("parse", "error:invalid") /\ UNCHANGED messageRates
           ELSE IF ~checkMessageRateLimit(ws[c].ip, m.type)
           THEN refuse("rate", "error:rate") /\ UNCHANGED messageRates
           ELSE IF ~validateMessageStructure(m)
           THEN /\ refuse("structure", "error:format")
                /\ messageRates' = recordMessage(ws[c].ip, m.type)
           ELSE /\ messageRates' = recordMessage(ws[c].ip, m.type)
                /\ handleMessage(c, m)
    /\ UNCHANGED <<connectionAttempts, now, dbVars>>

\* a faulty handler that closes the connection when it refuses a payload
OnMessageClosesRefused(c, m) ==
    /\ Receiving(c)
    /\ LET g == [Task("gate", "done", c, ws[c].userId) EXCEPT
                    !.type = m.type, !.size = m.size, !.to = m.toUserId]
           refuse(stage, reply) ==
               /\ last' = [g EXCEPT !.stage = stage, !.out = Sent(c, reply)]
               /\ ws' = WsClose(ws, c)
               /\ UNCHANGED <<wsConnections, connections, userConnections,
                              tasks, messageRates>>
       IN  IF ~validateMessageSize(m.size)
           THEN /\ ws' = WsClose(ws, c)
                /\ last' = [g EXCEPT !.stage = "size"]
                /\ UNCHANGED <<wsConnections, connections, userConnections,
                               tasks, messageRates>>
           ELSE IF m.type = "unparsable" THEN refuse("parse", "error:invalid")
           ELSE IF ~validateMessageStructure(m) THEN refuse("structure", "error:format")
           ELSE IF ~checkMessageRateLimit(ws[c].ip, m.type) THEN refuse("rate", "error:rate")
           ELSE /\ messageRates' = recordMessage(ws[c].ip, m.type)
                /\ handleMessage(c, m)
    /\ UNCHANGED <<connectionAttempts, now, dbVars>>

\* ws.on('message'): the size check closes the connection, a payload that
\* does not parse or has the wrong structure and a message over the rate
\* limit are answered with an error, anything else is handled
OnMessage(c, m) ==
    /\ Receiving(c)
    /\ LET g == [Task("gate", "done", c, ws[c].userId) EXCEPT
                    !.type = m.type, !.size = m.size, !.to = m.toUserId]
           refuse(stage, reply) ==
               /\ last' = [g EXCEPT !.stage = stage, !.out = Sent(c, reply)]
               /\ UNCHANGED <<connVars, tasks, messageRates>>
       IN  IF ~validateMessageSize(m.size)
           THEN /\ ws' = WsClose(ws, c)
                /\ last' = [g EXCEPT !.stage = "size"]
                /\ UNCHANGED <<wsConnections, connections, userConnections,
                               tasks, messageRates>>
           ELSE IF m.type = "unparsable" THEN refuse("parse", "error:invalid")
           ELSE IF ~validateMessageStructure(m) THEN refuse("structure", "error:format")
           ELSE IF ~checkMessageRateLimit(ws[c].ip, m.type) THEN refuse("rate", "error:rate")
           ELSE /\ messageRates' = recordMessage(ws[c].ip, m.type)
                /\ handleMessage(c, m)
    /\ UNCHANGED <<connectionAttempts, now, dbVars>>

\* a faulty sweep that keeps the last ten seconds only
cleanupRateLimitsEager ==
    /\ connectionAttempts' =
          [ip \in DOMAIN connectionAttempts |->
              SelectSeq(connectionAttempts[ip], LAMBDA time : time > now - 10000)]
    /\ messageRates' =
          [k \in DOMAIN messageRates |->
              SelectSeq(messageRates[k], LAMBDA time : time > now - 10000)]
    /\ last' = Task("sweep", "done", NoConn, NoUser)
    /\ UNCHANGED <<connVars, now, dbVars, tasks>>

\* security.cleanupRateLimits: of every key the timestamps of the last hour
\* stay, and a key that has none left is deleted (it reads as the empty
\* list); a user count of zero is deleted (it reads as zero)
cleanupRateLimits ==
    /\ connectionAttempts' =
          [ip \in DOMAIN connectionAttempts |->
              SelectSeq(connectionAttempts[ip], LAMBDA time : time > now - SWEEP_HORIZON)]
    /\ messageRates' =
          [k \in DOMAIN messageRates |->
              SelectSeq(messageRates[k], LAMBDA time : time > now - SWEEP_HORIZON)]
    /\ last' = Task("sweep", "done", NoConn, NoUser)
    /\ UNCHANGED <<connVars, now, dbVars, tasks>>

\* time passes, a full private-message window at a time
TickMs == getMessageRateWindow("private_message")

Tick ==
    /\ now < MaxNow * TickMs
    /\ now' = now + TickMs
    /\ last' = Idle
    /\ UNCHANGED <<connVars, connectionAttempts, messageRates, dbVars, tasks>>

(* --------------------------- gate specification ----------------------- *)
\* The sender is connected and authenticated, there is no other connection,
\* nobody is anybody's buddy.
InitGate ==
    /\ ws = [c \in Conns |->
               IF c = Sender
               THEN [NewWs("ip1") EXCEPT !.isAuthenticated = TRUE, !.userId = c]
               ELSE NoWs]
    /\ wsConnections = [u \in Users |-> IF u = Sender THEN u ELSE NoConn]
    /\ connections = [u \in Users |-> IF u = Sender THEN u ELSE NoConn]
    /\ userConnections = [u \in Users |-> IF u = Sender THEN 1 ELSE 0]
    /\ connectionAttempts = [ip \in Ips |-> <<0>>]
    /\ messageRates = [k \in RateKeys |-> <<>>]
    /\ now = 0
    /\ status = [u \in Users |-> IF u = Sender THEN "online" ELSE "offline"]
    /\ buddies = {}
    /\ blocks = {}
    /\ messages = {}
    /\ nextMsgId = 1
    /\ requests = NoRequests
    /\ tasks = {}
    /\ last = Idle

GateMsgs ==
    {ChatMsg(o, BodyHi) : o \in Others}
    \cup {[ChatMsg(o, BodyHi) EXCEPT !.size = MAX_MESSAGE_SIZE + 1] : o \in Others}
    \cup {ChatMsg(NoUser, BodyHi)}
    \cup {Msg("typing_start", NoToken, o, <<>>, 100) : o \in Others}
    \cup {AuthMsg([kind |-> "invalid", id |-> NoUser])}
    \cup {Msg("unparsable", NoToken, NoUser, <<>>, 100)}

NextGate ==
    \/ \E c \in Conns, m \in GateMsgs : OnMessage(c, m)
    \/ Tick
    \/ \E t \in tasks : RouteBuddies(t)
    \/ \E t \in tasks : TypingBuddies(t)

SpecGate == InitGate /\ [][NextGate]_vars

(* ------------------------- routing specification ---------------------- *)
\* Every user that has a connection slot is connected and authenticated on
\* it and the handlers have finished; the users are all buddies of each
\* other or nobody is; nobody is blocked.
AllBuddies == {<<a, b>> \in Users \X Users : a # b}

InitRoute ==
    /\ ws = [c \in Conns |->
               IF c \in Users
               THEN [NewWs("ip1") EXCEPT !.isAuthenticated = TRUE, !.userId = c]
               ELSE NoWs]
    /\ wsConnections = [u \in Users |-> IF u \in Conns THEN u ELSE NoConn]
    /\ connections = [u \in Users |-> IF u \in Conns THEN u ELSE NoConn]
    /\ userConnections = [u \in Users |-> IF u \in Conns THEN 1 ELSE 0]
    /\ connectionAttempts = [ip \in Ips |-> [i \in 1..Cardinality(Conns \cap Users) |-> 0]]
    /\ messageRates = [k \in RateKeys |-> <<>>]
    /\ now = 0
    /\ status = [u \in Users |-> IF u \in Conns THEN "online" ELSE "offline"]
    /\ buddies \in {{}, AllBuddies}
    /\ blocks = {}
    /\ messages = {}
    /\ nextMsgId = 1
    /\ requests = NoRequests
    /\ tasks = {}
    /\ last = Idle

\* The traffic: one user sends, over the WebSocket connection or the REST
\* route; the other users block, unblock and remove buddies; any connection
\* may close at any time.
WsBodies == {BodyHi, BodyBlank, BodyScript}
RestBodies == {BodyHi, BodyAmp}

NextRoute ==
    \/ \E c \in Conns, to \in Users, body \in WsBodies :
          ws[c].userId = Sender /\ Dispatch(c, ChatMsg(to, body))
    \/ \E t \in tasks : RouteBuddies(t)
    \/ \E t \in tasks : RouteBlocked(t)
    \/ \E t \in tasks : RouteInsert(t)
    \/ \E t \in tasks : RouteDeliver(t)
    \/ \E to \in Users, body \in RestBodies : RestSend(Sender, to, body)
    \/ \E t \in tasks : RestBuddies(t)
    \/ \E t \in tasks : RestBlocked(t)
    \/ \E t \in tasks : RestInsert(t)
    \/ \E t \in tasks : RestDeliver(t)
    \/ \E u \in Others, v \in Users : Block(u, v)
    \/ \E t \in tasks : BlockExists(t)
    \/ \E t \in tasks : BlockInsert(t)
    \/ \E t \in tasks : BlockDelete(t)
    \/ \E t \in tasks : BlockCancel(t)
    \/ \E u \in Others, v \in Users : Unblock(u, v)
    \/ \E u \in Others, v \in Users : removeBuddy(u, v)
    \/ \E c \in Conns : EmitClose(c)
    \/ \E t \in tasks : CloseUpdate(t)
    \/ \E t \in tasks : NotifySelect(t)
    \/ \E t \in tasks : NotifyFanout(t)

SpecRoute == InitRoute /\ [][NextRoute]_vars

(* ------------------------- fan-out specification ---------------------- *)
\* A user needs two buddies for a fan-out with more than one recipient:
\* there is one user more than in the other specifications, every user is
\* connected and authenticated on a connection of its own, and every user
\* is a buddy of every other user.  Connections close, and a send of the
\* fan-out may throw.
FanUsers == 1..(NUsers + 1)

InitFan ==
    /\ ws = [c \in FanUsers |->
               [NewWs("ip1") EXCEPT !.isAuthenticated = TRUE, !.userId = c]]
    /\ wsConnections = [u \in FanUsers |-> u]
    /\ connections = [u \in FanUsers |-> u]
    /\ userConnections = [u \in FanUsers |-> 1]
    /\ connectionAttempts = [ip \in Ips |-> [i \in FanUsers |-> 0]]
    /\ messageRates = [k \in RateKeys |-> <<>>]
    /\ now = 0
    /\ status = [u \in FanUsers |-> "online"]
    /\ buddies = {<<a, b>> \in FanUsers \X FanUsers : a # b}
    /\ blocks = {}
    /\ messages = {}
    /\ nextMsgId = 1
    /\ requests = NoRequests
    /\ tasks = {}
    /\ last = Idle

NextFan ==
    \/ \E c \in FanUsers : EmitClose(c)
    \/ \E t \in tasks : CloseUpdate(t)
    \/ \E t \in tasks : NotifySelect(t)
    \/ \E t \in tasks : NotifyFanout(t)
    \/ \E t \in tasks : NotifyFanoutThrow(t)

SpecFan == InitFan /\ [][NextFan]_vars

(* --------------------- authentication specification ------------------ *)
\* The connection specification without the logout route, with what may
\* arrive on a connection besides a well-formed authenticate message: an
\* authenticate message without a token, the status_update message of the
\* client, and chat and typing messages before authentication.
StatusValues == {"online", "away", "busy"}

StatusMsg(s) ==
    [type |-> "status_update", token |-> NoToken, toUserId |-> NoUser,
     message |-> <<>>, size |-> 100, status |-> s]

RefusedMsgs == {AuthMsg(NoToken)} \cup {StatusMsg(s) : s \in StatusValues}

EarlyMsgs ==
    {ChatMsg(o, BodyHi) : o \in Users}
    \cup {Msg("typing_start", NoToken, o, <<>>, 100) : o \in Users}

NextAuth ==
    \/ \E c \in Conns, ip \in Ips : Connect(c, ip)
    \/ \E c \in Conns, token \in Tokens : Dispatch(c, AuthMsg(token))
    \/ \E c \in Conns, m \in RefusedMsgs : OnMessage(c, m)
    \/ \E c \in Conns, m \in EarlyMsgs : ~ws[c].isAuthenticated /\ Dispatch(c, m)
    \/ \E t \in tasks : AuthUpdate(t)
    \/ \E t \in tasks : NotifySelect(t)
    \/ \E t \in tasks : NotifyFanout(t)
    \/ \E c \in Conns : EmitClose(c)
    \/ \E t \in tasks : CloseUpdate(t)

SpecAuth == Init /\ [][NextAuth]_vars

(* ------------------------ heartbeat specification -------------------- *)
\* Every user is connected and authenticated and is a buddy of every other
\* user.  The timers tick, the peers answer the pings or not, a connection
\* may authenticate again and may close at any time.
InitBeat ==
    /\ ws = [c \in Conns |->
               IF c \in Users
               THEN [NewWs("ip1") EXCEPT !.isAuthenticated = TRUE, !.userId = c]
               ELSE NoWs]
    /\ wsConnections = [u \in Users |-> IF u \in Conns THEN u ELSE NoConn]
    /\ connections = [u \in Users |-> IF u \in Conns THEN u ELSE NoConn]
    /\ userConnections = [u \in Users |-> IF u \in Conns THEN 1 ELSE 0]
    /\ connectionAttempts = [ip \in Ips |-> [i \in 1..Cardinality(Conns \cap Users) |-> 0]]
    /\ messageRates = [k \in RateKeys |-> <<>>]
    /\ now = 0
    /\ status = [u \in Users |-> IF u \in Conns THEN "online" ELSE "offline"]
    /\ buddies = AllBuddies
    /\ blocks = {}
    /\ messages = {}
    /\ nextMsgId = 1
    /\ requests = NoRequests
    /\ tasks = {}
    /\ last = Idle

NextBeat ==
    \/ \E c \in Conns : Heartbeat(c)
    \/ \E c \in Conns : Pong(c)
    \/ \E c \in Conns, u \in Users :
          Dispatch(c, AuthMsg([kind |-> "access", id |-> u]))
    \/ \E t \in tasks : AuthUpdate(t)
    \/ \E c \in Conns : EmitClose(c)
    \/ \E t \in tasks : CloseUpdate(t)
    \/ \E t \in tasks : NotifySelect(t)
    \/ \E t \in tasks : NotifyFanout(t)

SpecBeat == InitBeat /\ [][NextBeat]_vars

(* --------------------------- text specification ----------------------- *)
\* A client submits a text; the router validates it and sanitises it, and
\* what was sanitised once is sanitised again.  The text under work is in
\* the raw and body fields of last.
TextChars == {"a", " ", "&", "<", "/"}

Texts == UNION {[1..n -> TextChars] : n \in 0..MaxText}

InitText ==
    /\ ws = [c \in Conns |-> NoWs]
    /\ wsConnections = [u \in Users |-> NoConn]
    /\ connections = [u \in Users |-> NoConn]
    /\ userConnections = [u \in Users |-> 0]
    /\ connectionAttempts = [ip \in Ips |-> <<>>]
    /\ messageRates = [k \in RateKeys |-> <<>>]
    /\ now = 0
    /\ status = [u \in Users |-> "offline"]
    /\ buddies = {}
    /\ blocks = {}
    /\ messages = {}
    /\ nextMsgId = 1
    /\ requests = NoRequests
    /\ tasks = {}
    /\ \E t \in Texts : last = [Task("text", "input", NoConn, NoUser) EXCEPT !.raw = t]

\* handlePrivateMessage: validateMessageContent, then sanitizeMessageContent
Sanitize ==
    /\ last.kind = "text" /\ last.pc = "input"
    /\ validateMessageContent(last.raw)
    /\ last' = [last EXCEPT !.pc = "sanitized", !.body = sanitizeMessageContent(last.raw)]
    /\ UNCHANGED <<connVars, gateVars, dbVars, tasks>>

\* sanitizeMessageContent applied to a sanitised text
Resanitize ==
    /\ last.kind = "text" /\ last.pc = "sanitized"
    /\ last' = [last EXCEPT !.pc = "resanitized", !.body = sanitizeMessageContent(last.body)]
    /\ UNCHANGED <<connVars, gateVars, dbVars, tasks>>

NextText ==
    \/ Sanitize
    \/ Resanitize

SpecText == InitText /\ [][NextText]_vars

(* ------------------------ delivery specification --------------------- *)
\* Every user is connected and authenticated and is a buddy of every other
\* user.  One user sends; meanwhile the heartbeat may terminate a
\* connection that does not answer, a user may log out, and a connection
\* may close.
NextDeliver ==
    \/ \E c \in Conns, to \in Others :
          ws[c].userId = Sender /\ Dispatch(c, ChatMsg(to, BodyHi))
    \/ \E t \in tasks : RouteBuddies(t)
    \/ \E t \in tasks : RouteBlocked(t)
    \/ \E t \in tasks : RouteInsert(t)
    \/ \E t \in tasks : RouteDeliver(t)
    \/ \E c \in Conns : Heartbeat(c)
    \/ \E u \in Users : Logout(u)
    \/ \E c \in Conns : EmitClose(c)
    \/ \E t \in tasks : CloseUpdate(t)
    \/ \E t \in tasks : NotifySelect(t)
    \/ \E t \in tasks : NotifyFanout(t)

SpecDeliver == InitBeat /\ [][NextDeliver]_vars

(* ------------------------ admission specification -------------------- *)
\* Clients connect from one address, more of them than the address is
\* allowed in a minute; time passes half a connection window at a time; a
\* ping arrives on any connection that has a message handler; the 'close'
\* event of a refused connection follows its ws.close.
AdmitConns == 1..(MAX_CONNECTIONS_PER_IP + MaxConns)

PingMsg == Msg("ping", NoToken, NoUser, <<>>, 100)

InitAdmit ==
    /\ ws = [c \in AdmitConns |-> NoWs]
    /\ wsConnections = [u \in Users |-> NoConn]
    /\ connections = [u \in Users |-> NoConn]
    /\ userConnections = [u \in Users |-> 0]
    /\ connectionAttempts = [ip \in Ips |-> <<>>]
    /\ messageRates = [k \in RateKeys |-> <<>>]
    /\ now = 0
    /\ status = [u \in Users |-> "offline"]
    /\ buddies = {}
    /\ blocks = {}
    /\ messages = {}
    /\ nextMsgId = 1
    /\ requests = NoRequests
    /\ tasks = {}
    /\ last = Idle

TickHalfWindow ==
    /\ now < (MaxNow + 1) * CONNECTION_WINDOW
    /\ now' = now + CONNECTION_WINDOW \div 2
    /\ last' = Idle
    /\ UNCHANGED <<connVars, connectionAttempts, messageRates, dbVars, tasks>>

NextAdmit ==
    \/ \E c \in AdmitConns, ip \in Ips : Connect(c, ip)
    \/ TickHalfWindow
    \/ \E c \in AdmitConns : Dispatch(c, PingMsg)
    \/ \E c \in AdmitConns : ~ws[c].handlers /\ EmitClose(c)

SpecAdmit == InitAdmit /\ [][NextAdmit]_vars

(* -------------------------- shape specification ---------------------- *)
\* One user is connected and authenticated, further clients connect.  What
\* arrives on a connection is a ping or a payload that does not parse, has
\* no type or an unknown one, or has the wrong shape for its type.
BodyLong == Rep("a", MAX_BODY_LENGTH + 1)

MalformedMsgs ==
    { Msg("unparsable", NoToken, NoUser, <<>>, 100),
      Msg("", NoToken, NoUser, <<>>, 100),
      Msg("bogus", NoToken, NoUser, <<>>, 100),
      AuthMsg(NoToken),
      ChatMsg(NoUser, BodyHi),
      Msg("typing_start", NoToken, NoUser, <<>>, 100) }
    \cup {ChatMsg(o, BodyLong) : o \in Others}

NextShape ==
    \/ \E c \in Conns, ip \in Ips : Connect(c, ip)
    \/ \E c \in Conns, m \in MalformedMsgs \cup {PingMsg} : OnMessage(c, m)
    \/ \E c \in Conns : EmitClose(c)
    \/ \E t \in tasks : CloseUpdate(t)
    \/ \E t \in tasks : NotifySelect(t)
    \/ \E t \in tasks : NotifyFanout(t)

SpecShape == InitGate /\ [][NextShape]_vars

(* ------------------------- ordering specification -------------------- *)
\* Every user is connected and authenticated and is a buddy of every other
\* user.  One user sends its messages to one recipient one after the other,
\* the next one only when the reply to the one before has arrived on its
\* open connection; the messages already admitted are those the rate
\* counter holds.  Connections may close.
OrderBodies == <<BodyHi, BodyHo>>

Recipient == CHOOSE o \in Others : \A v \in Others : o <= v

Submitted(c) == Len(messageRates[<<ws[c].ip, "private_message">>])

SubmitNext(c) ==
    /\ Live(c, Sender)
    /\ \A t \in tasks : (t.kind = "route" /\ t.c = c) => t.out # <<>>
    /\ Submitted(c) < Len(OrderBodies)
    /\ OnMessage(c, ChatMsg(Recipient, OrderBodies[Submitted(c) + 1]))

NextOrder ==
    \/ \E c \in Conns : SubmitNext(c)
    \/ \E t \in tasks : RouteBuddies(t)
    \/ \E t \in tasks : RouteBlocked(t)
    \/ \E t \in tasks : RouteInsert(t)
    \/ \E t \in tasks : RouteDeliver(t)
    \/ \E c \in Conns : EmitClose(c)
    \/ \E t \in tasks : CloseUpdate(t)
    \/ \E t \in tasks : NotifySelect(t)
    \/ \E t \in tasks : NotifyFanout(t)

SpecOrder == InitBeat /\ [][NextOrder]_vars

(* ----------------------- relationship specification ------------------ *)
\* Nobody is connected; the users are buddies of each other.  Every user
\* sends, accepts and rejects buddy requests, removes buddies, blocks and
\* unblocks; a query of such an operation may fail.
NextBuddy ==
    \/ \E u \in Users, v \in Users : sendRequest(u, v)
    \/ \E t \in tasks : RequestTarget(t)
    \/ \E t \in tasks : RequestExisting(t)
    \/ \E t \in tasks : RequestPending(t)
    \/ \E t \in tasks : RequestBlocked(t)
    \/ \E t \in tasks : RequestInsert(t)
    \/ \E u \in Users, v \in Users : acceptRequest(u, v)
    \/ \E t \in tasks : AcceptSelect(t)
    \/ \E t \in tasks : AcceptInsert(t)
    \/ \E t \in tasks : AcceptUpdate(t)
    \/ \E u \in Users, v \in Users : rejectRequest(u, v)
    \/ \E u \in Users, v \in Users : removeBuddy(u, v)
    \/ \E u \in Users, v \in Users : Block(u, v)
    \/ \E t \in tasks : BlockExists(t)
    \/ \E t \in tasks : BlockInsert(t)
    \/ \E t \in tasks : BlockDelete(t)
    \/ \E t \in tasks : BlockCancel(t)
    \/ \E u \in Users, v \in Users : Unblock(u, v)
    \/ \E t \in tasks : QueryFails(t)

SpecBuddy == Init /\ [][NextBuddy]_vars

(* --------------------------- store specification --------------------- *)
\* Every user is connected and authenticated and is a buddy of every other
\* user.  One user sends over the REST route; every user fetches
\* conversations, marks them read and deletes messages.
NextStore ==
    \/ \E to \in Others : RestSend(Sender, to, BodyHi)
    \/ \E t \in tasks : RestBuddies(t)
    \/ \E t \in tasks : RestBlocked(t)
    \/ \E t \in tasks : RestInsert(t)
    \/ \E t \in tasks : RestDeliver(t)
    \/ \E u \in Users, v \in Users : Fetch(u, v)
    \/ \E t \in tasks : FetchBuddies(t)
    \/ \E t \in tasks : FetchSelect(t)
    \/ \E t \in tasks : FetchMark(t)
    \/ \E u \in Users, v \in Users : MarkRead(u, v)
    \/ \E u \in Users, id \in 1..MaxMsgs : DeleteMessage(u, id)

SpecStore == InitBeat /\ [][NextStore]_vars

(* --------------------------- sweep specification --------------------- *)
\* One user is connected and authenticated; its address has made as many
\* connections in this millisecond as an address is allowed in a minute.
\* The user sends typing indicators, a further client connects, time
\* passes by five seconds or by an hour, and the sweep runs at any time.
InitSweep ==
    /\ ws = [c \in Conns |->
               IF c = Sender
               THEN [NewWs("ip1") EXCEPT !.isAuthenticated = TRUE, !.userId = c]
               ELSE NoWs]
    /\ wsConnections = [u \in Users |-> IF u = Sender THEN u ELSE NoConn]
    /\ connections = [u \in Users |-> IF u = Sender THEN u ELSE NoConn]
    /\ userConnections = [u \in Users |-> IF u = Sender THEN 1 ELSE 0]
    /\ connectionAttempts = [ip \in Ips |-> Rep(0, MAX_CONNECTIONS_PER_IP)]
    /\ messageRates = [k \in RateKeys |-> <<>>]
    /\ now = 0
    /\ status = [u \in Users |-> IF u = Sender THEN "online" ELSE "offline"]
    /\ buddies = {}
    /\ blocks = {}
    /\ messages = {}
    /\ nextMsgId = 1
    /\ requests = NoRequests
    /\ tasks = {}
    /\ last = Idle

TickSweep ==
    /\ \/ /\ now % SWEEP_HORIZON < 15000
          /\ now' = now + 5000
       \/ /\ now < MaxNow * SWEEP_HORIZON
          /\ now' = now + SWEEP_HORIZON
    /\ last' = Idle
    /\ UNCHANGED <<connVars, connectionAttempts, messageRates, dbVars, tasks>>

NextSweep ==
    \/ \E c \in Conns, ip \in Ips : Connect(c, ip)
    \/ \E c \in Conns, o \in Others :
          OnMessage(c, Msg("typing_start", NoToken, o, <<>>, 100))
    \/ \E t \in tasks : TypingBuddies(t)
    \/ TickSweep
    \/ cleanupRateLimits

SpecSweep == InitSweep /\ [][NextSweep]_vars

(* ------------------------- escaping specification -------------------- *)
\* Every user is connected and authenticated and is a buddy of every other
\* user.  One user sends texts with and without markup, and its connection
\* or the recipient's may close.
MarkupBodies == {BodyHi, BodyMarkup}

NextEscape ==
    \/ \E c \in Conns, to \in Others, body \in MarkupBodies :
          ws[c].userId = Sender /\ Dispatch(c, ChatMsg(to, body))
    \/ \E t \in tasks : RouteBuddies(t)
    \/ \E t \in tasks : RouteBlocked(t)
    \/ \E t \in tasks : RouteInsert(t)
    \/ \E t \in tasks : RouteDeliver(t)
    \/ \E c \in Conns : EmitClose(c)
    \/ \E t \in tasks : CloseUpdate(t)
    \/ \E t \in tasks : NotifySelect(t)
    \/ \E t \in tasks : NotifyFanout(t)

SpecEscape == InitBeat /\ [][NextEscape]_vars

(* -------------------------- typing specification --------------------- *)
\* Every user is connected and authenticated; the users are all buddies of
\* each other or nobody is.  The users send typing indicators, a connection
\* may authenticate again and may close.
TypingMsgs ==
    {Msg(type, NoToken, o, <<>>, 100) : type \in {"typing_start", "typing_stop"}, o \in Users}

NextTyping ==
    \/ \E c \in Conns, m \in TypingMsgs : Dispatch(c, m)
    \/ \E t \in tasks : TypingBuddies(t)
    \/ \E c \in Conns, u \in Users :
          Dispatch(c, AuthMsg([kind |-> "access", id |-> u]))
    \/ \E t \in tasks : AuthUpdate(t)
    \/ \E c \in Conns : EmitClose(c)
    \/ \E t \in tasks : CloseUpdate(t)
    \/ \E t \in tasks : NotifySelect(t)
    \/ \E t \in tasks : NotifyFanout(t)

SpecTyping == InitRoute /\ [][NextTyping]_vars

(* ------------------------------ claims -------------------------------- *)
\* the step in which the 'close' event of c is handled
ClosesNow(c) == ws[c].readyState # "CLOSED" /\ ws'[c].readyState = "CLOSED"

\* C2: when a second connection authenticates as U while a first one is
\* registered, the first is closed and the registry holds the second; and
\* handling the close event of the evicted first connection leaves the
\* second one registered and open.
C2_EvictionKeepsSecond ==
    [][ \A c1 \in Conns, c2 \in Conns, u \in Users :
          /\ ( /\ c1 # c2
               /\ wsConnections[u] = c1
               /\ ws[c2].userId # u
               /\ ws'[c2].userId = u )
             => (wsConnections'[u] = c2 /\ ws'[c1].readyState # "OPEN")
          /\ ( /\ c1 # c2
               /\ ClosesNow(c1)
               /\ ws[c1].userId = u
               /\ wsConnections[u] = c2
               /\ Live(c2, u) )
             => (wsConnections'[u] = c2 /\ ws'[c2].readyState = "OPEN")
      ]_vars

\* C3: once the close handler of an authenticated connection has finished,
\* no registry entry refers to the connection, the status has been written
\* as offline, every buddy with a live connection has received the offline
\* event and the heartbeat timer is cleared.
C3_CloseTeardown ==
    (last.kind = "close" /\ last.pc = "done") =>
        /\ \A u \in Users : wsConnections[u] # last.c /\ connections[u] # last.c
        /\ last.out = <<"offline">>
        /\ \A b \in Users : BuddyEdge(last.u, b) => LiveConns(b) \subseteq last.dlv
        /\ ~ws[last.c].heartbeat

\* C4: an authenticate request is refused for the connection ceiling only
\* when the user has at least 3 live authenticated connections, and, when
\* nothing is in flight, the per-user count is the number of the user's
\* open authenticated connections.  The refused connection is closing when
\* the handler has returned, so it is no longer among the live ones: the
\* + 1 counts it in case it was one of the user's connections before.
Quiet == tasks = {} /\ \A k \in Conns : ws[k].readyState # "CLOSING"

C4_CeilingCountsLive ==
    /\ (last.kind = "auth" /\ last.out = <<"closed">>) =>
           Cardinality(LiveConns(last.u)) + 1 >= MAX_CONNECTIONS_PER_USER
    /\ Quiet => \A u \in Users : userConnections[u] = Cardinality(LiveConns(u))

\* a finished invocation of the WebSocket router, or of the REST send
\* route, for a body that passed validation
RoutedWs(t) ==
    /\ t.kind = "route" /\ t.pc = "done"
    /\ t.stage # "unauthenticated"
    /\ validateMessageContent(t.raw)

RoutedRest(t) == t.kind = "rest" /\ t.pc = "done" /\ restLengthOk(t.raw)

Confirmation == <<"private_message:outgoing">>
Errors == {<<"error:content">>, <<"error:not_buddies">>, <<"error:blocked">>,
           <<"error:failed">>}

\* C1: a content-valid private message is persisted, and acknowledged to a
\* sender that can still be reached, exactly when a buddy edge exists and
\* the recipient has no block against the sender; for the WebSocket router
\* and the REST route alike.
C1_PersistedIffRelationship ==
    /\ RoutedWs(last) =>
          /\ (last.row # 0) <=> (last.edge /\ ~last.blk)
          /\ (last.row # 0 /\ ws[last.c].readyState = "OPEN") => last.out = Confirmation
    /\ RoutedRest(last) =>
          /\ (last.row # 0) <=> (last.edge /\ ~last.blk)
          /\ (last.row # 0) <=> (last.out = <<"200">>)

\* C5: when the INSERT of the router fails, the sender gets no confirmation,
\* no connection gets the incoming event, no row of this invocation exists,
\* and the sender's connection, if open, gets the error reply and stays open.
C5_InsertFailureNoDelivery ==
    (last.kind = "route" /\ last.pc = "done" /\ last.stage = "insert_failed") =>
        /\ last.row = 0
        /\ \A m \in messages : m.body # last.body
        /\ last.dlv = {}
        /\ last.out \in {<<>>, <<"error:failed">>}
        /\ (last.out = <<"error:failed">>) <=> (ws[last.c].readyState = "OPEN")

C5_Witness ==
    /\ last.kind = "route" /\ last.pc = "done" /\ last.stage = "insert_failed"
    /\ last.out = <<"error:failed">>
    /\ ws[last.c].readyState = "OPEN"

\* C6 as stated: every routed private message gives its sender exactly one
\* outcome: the confirmation iff a row was persisted, an error iff none was.
C6_ExactlyOneOutcome ==
    RoutedWs(last) =>
        /\ last.out \in {Confirmation} \cup Errors
        /\ (last.out = Confirmation) <=> (last.row # 0)

\* C6, amended: a sender whose connection is still open when the router
\* replies gets exactly one outcome, the confirmation iff a row was
\* persisted and an error iff none was; a sender whose connection is no
\* longer open gets nothing, whether or not a row was persisted.
C6_OneOutcomeWhileOpen ==
    RoutedWs(last) =>
        /\ (ws[last.c].readyState = "OPEN") => last.out \in {Confirmation} \cup Errors
        /\ (ws[last.c].readyState # "OPEN") => last.out = <<>>
        /\ (last.out = Confirmation) => (last.row # 0)
        /\ (last.out \in Errors) => (last.row = 0)

C6_Witness ==
    /\ RoutedWs(last) /\ last.row # 0 /\ last.out = <<>>
    /\ ws[last.c].readyState # "OPEN"

\* C7 as stated: once the recipient's block operation has completed, a
\* private message of the blocked user is answered with the Blocked error
\* and no row is inserted.
C7_BlockedError ==
    (RoutedWs(last) /\ last.blk0) =>
        /\ last.row = 0
        /\ last.out \in {<<>>, <<"error:blocked">>}

\* C7, amended: once the recipient's block operation has completed, and
\* while the block is in place at the relationship checks of the router, a
\* private message of the blocked user is rejected and no row is inserted;
\* the error is NotBuddies when no buddy edge exists, which is the state
\* the block operation leaves, and Blocked only when a buddy edge exists.
C7_RelationshipError ==
    (RoutedWs(last) /\ last.blk0 /\ last.blk1 /\ (last.edge => last.blk)) =>
        /\ last.row = 0
        /\ last.out \in {<<>>, <<"error:not_buddies">>, <<"error:blocked">>}
        /\ (last.out = <<"error:not_buddies">>) => ~last.edge
        /\ (last.out = <<"error:blocked">>) => last.edge

C7_Witness ==
    /\ RoutedWs(last) /\ last.blk0 /\ last.blk1
    /\ last.out = <<"error:not_buddies">>
    /\ BlockEdge(last.to, last.u)

\* C8: when the users are buddies, nothing blocks the sender, the recipient
\* has no registered open connection and the sender stays connected, a
\* valid private message is persisted unread, the sender gets the
\* confirmation and no connection gets the incoming event.
C8_OfflineStoreAndConfirm ==
    ( /\ RoutedWs(last) /\ last.edge /\ ~last.blk
      /\ last.off0 /\ Offline(last.to)
      /\ ws[last.c].readyState = "OPEN" ) =>
        /\ last.row # 0
        /\ \E m \in messages : m.id = last.row /\ ~m.read
        /\ last.out = Confirmation
        /\ last.dlv = {}

\* the ceilings and windows the rate limiter is to enforce
C9Types == {"private_message", "typing_start", "typing_stop", "authenticate"}

C9Ceiling(type) ==
    CASE type = "private_message" -> 60
      [] type = "authenticate" -> 5
      [] OTHER -> 10

C9Window(type) ==
    CASE type = "private_message" -> 60000
      [] type = "authenticate" -> 30000
      [] OTHER -> 10000

\* how many of the timestamps lie in the window that ends at s
InWindow(list, s, w) ==
    Cardinality({i \in 1..Len(list) : list[i] > s - w /\ list[i] <= s})

TimePoints == {k * TickMs : k \in 0..MaxNow}

\* a handler for a message of the type starts in this step
Starts(t) ==
    /\ t \in tasks' /\ t \notin tasks
    /\ t.kind \in {"route", "typing"} /\ t.pc = "buddies"

C10_OversizeClosesFirst ==
    /\ [](\A t \in tasks \cup {last} :
            t.size > 10 * 1024 =>
                /\ t.kind = "gate" /\ t.stage = "size"
                /\ t.out = <<>> /\ t.dlv = {}
                /\ ws[t.c].readyState # "OPEN")
    /\ [][ (last'.kind = "gate" /\ last'.size > 10 * 1024) =>
                /\ messageRates' = messageRates
                /\ tasks' = tasks
                /\ messages' = messages /\ nextMsgId' = nextMsgId
                /\ wsConnections' = wsConnections /\ connections' = connections
         ]_vars

C10_Witness ==
    /\ last.kind = "gate" /\ last.stage = "size" /\ last.size > 10 * 1024
    /\ ws[last.c].readyState = "CLOSING"

\* C11: a connection that has not answered the last probe is terminated at
\* the next heartbeat tick, and one that has answered is probed again and
\* left open; and once the close handler of a connection the heartbeat has
\* terminated has finished, no registry entry refers to the connection,
\* the status of the user it was authenticated as is offline in the store
\* as this handler wrote it, and every buddy with a live connection has
\* received the offline event.
C11_HeartbeatTeardown ==
    /\ [][ \A c \in Conns : Heartbeat(c) =>
              IF ~ws[c].isAlive
              THEN ws'[c].readyState # "OPEN" /\ ~ws'[c].heartbeat
              ELSE ws'[c].readyState = ws[c].readyState /\ ws'[c].heartbeat
         ]_vars
    /\ []( (last.kind = "close" /\ last.pc = "done" /\ last.stage = "terminated") =>
              /\ \A u \in Users : wsConnections[u] # last.c /\ connections[u] # last.c
              /\ last.out = <<"offline">>
              /\ \A b \in Users : BuddyEdge(last.u, b) => LiveConns(b) \subseteq last.dlv )

\* C12: removing a user from the registry a second time in a row gives the
\* state the first removal gave, and removing a user that has no entry
\* changes nothing: a logout for such a user leaves every socket, both
\* registries, the counts and the stored statuses as they are and starts no
\* handler, so nobody is notified.
C12_RemovalIdempotent ==
    /\ [](\A u \in Users :
            LET r1 == disconnectUserWebSocket(ws, wsConnections, u)
                r2 == disconnectUserWebSocket(r1.ws, r1.reg, u)
            IN  /\ r2 = r1
                /\ r1.reg[u] = NoConn
                /\ wsConnections[u] = NoConn => (r1.ws = ws /\ r1.reg = wsConnections))
    /\ [][ \A u \in Users :
              (Logout(u) /\ wsConnections[u] = NoConn) =>
                  /\ UNCHANGED <<ws, wsConnections, connections, userConnections>>
                  /\ UNCHANGED <<status, tasks>>
         ]_vars

\* a logout has removed the entry of a user and closed the connection; the
\* close event has not been handled yet
C12_Witness ==
    \E u \in Users, c \in Conns :
        /\ wsConnections[u] = NoConn
        /\ connections[u] = c
        /\ ws[c].userId = u /\ ws[c].readyState = "CLOSING"
        /\ last = Idle

\* C13: for every text that passes validateMessageContent, sanitising the
\* sanitised text gives the sanitised text again.
C13_SanitizeStable ==
    (last.kind = "text" /\ last.pc = "resanitized") =>
        last.body = sanitizeMessageContent(last.raw)

\* C14: an authenticate message handled on a connection that is already
\* authenticated leaves the connection's user id, both registries, the
\* connection's ready state and the per-user counts as they are.
C14_AuthenticatesOnce ==
    [][ \A c \in Conns, token \in Tokens :
          (ws[c].isAuthenticated /\ Dispatch(c, AuthMsg(token))) =>
              /\ ws'[c].userId = ws[c].userId
              /\ wsConnections' = wsConnections /\ connections' = connections
              /\ ws'[c].readyState = ws[c].readyState
              /\ userConnections' = userConnections
      ]_vars

\* C15: when handleAuthentication has finished for a valid access token of
\* user U, the connection has received auth_success and is still open,
\* then the registry lookup of U returns this connection, U's stored
\* status is online, and every buddy of U that has a live connection has
\* received the online event.
C15_AuthEffects ==
    ( /\ last.kind = "auth" /\ last.pc = "done"
      /\ last.out = <<"auth_success">>
      /\ ws[last.c].readyState = "OPEN" ) =>
        /\ getWebSocketConnection(last.u) = last.c
        /\ status[last.u] = "online"
        /\ \A b \in Users : BuddyEdge(last.u, b) => LiveConns(b) \subseteq last.dlv

\* what an authenticate message that fails leaves alone: the binding of
\* the connection, both registries, the counts, the stored statuses and
\* the running handlers; nothing is sent to any other connection
AuthFailureLeaves(c) ==
    /\ ws'[c].userId = ws[c].userId /\ ws'[c].isAuthenticated = ws[c].isAuthenticated
    /\ wsConnections' = wsConnections /\ connections' = connections
    /\ userConnections' = userConnections
    /\ status' = status
    /\ tasks' = tasks
    /\ last'.dlv = {}

\* the step in which handleAuthentication throws for the token it was
\* given (empty, invalid or expired, or valid but not of the access class)
BadTokenStep ==
    last'.kind = "auth" /\ last'.pc = "done" /\ last'.u = NoUser

\* the step in which an authenticate message without a token string is
\* refused for its structure
NoTokenStep ==
    last'.kind = "gate" /\ last'.stage = "structure" /\ last'.type = "authenticate"

\* C16 as stated: an authenticate message whose token is missing, fails
\* verification or is not an access token binds nothing, registers
\* nothing, changes no status and no count, notifies nobody, and the
\* connection gets auth_error and is closed.
C16_BadTokenClosed ==
    [][ (BadTokenStep \/ NoTokenStep) =>
            /\ AuthFailureLeaves(last'.c)
            /\ ws'[last'.c].readyState # "OPEN"
            /\ ws[last'.c].readyState = "OPEN" => last'.out = <<"auth_error">>
      ]_vars

\* C16, amended: an authenticate message whose token string fails
\* verification or is not an access token does as stated; one that carries
\* no token string binds, registers and changes nothing either, but is
\* answered with the format error and the connection is left as it is.
C16_BadTokenUnbound ==
    [][ /\ BadTokenStep =>
              /\ AuthFailureLeaves(last'.c)
              /\ ws'[last'.c].readyState # "OPEN"
              /\ ws[last'.c].readyState = "OPEN" => last'.out = <<"auth_error">>
        /\ NoTokenStep =>
              /\ AuthFailureLeaves(last'.c)
              /\ ws'[last'.c].readyState = ws[last'.c].readyState
              /\ ws[last'.c].readyState = "OPEN" => last'.out = <<"error:format">>
      ]_vars

\* a fresh connection has been refused for a bad token: auth_error, closing,
\* unbound and unregistered
C16_Witness ==
    /\ last.kind = "auth" /\ last.out = <<"auth_error">>
    /\ ws[last.c].readyState = "CLOSING"
    /\ ~ws[last.c].isAuthenticated /\ ws[last.c].userId = NoUser
    /\ \A u \in Users : wsConnections[u] # last.c /\ userConnections[u] = 0

\* C17: a chat or typing handler runs only for an authenticated connection;
\* a private_message, typing_start or typing_stop that arrives on a
\* connection that is not authenticated ends at once with nothing sent,
\* nothing delivered and no row, and the step that handles it leaves the
\* message table and the running handlers as they are.
C17_UnauthenticatedDropped ==
    /\ [](\A t \in tasks \cup {last} :
            t.kind \in {"route", "typing"} =>
                \/ ws[t.c].isAuthenticated
                \/ /\ t.stage = "unauthenticated" /\ t.pc = "done"
                   /\ t.out = <<>> /\ t.dlv = {} /\ t.row = 0)
    /\ [][ last'.stage = "unauthenticated" =>
              /\ messages' = messages /\ nextMsgId' = nextMsgId
              /\ tasks' = tasks
         ]_vars

\* a private_message has arrived on an open connection that never
\* authenticated
C17_Witness ==
    /\ last.kind = "route" /\ last.stage = "unauthenticated"
    /\ ws[last.c].readyState = "OPEN" /\ ~ws[last.c].isAuthenticated
    /\ messages = {}

\* C18: when a send of a presence fan-out has failed for one buddy's
\* connection, every other buddy whose connection is open has the event
\* once the fan-out has ended.
C18_FanoutIndependent ==
    (last.kind \in {"auth", "close"} /\ last.pc = "done" /\ last.fail # NoConn) =>
        notifyTargets(last) \ {last.fail} \subseteq last.dlv

\* C19: a handler that has gone on to its fan-out, or has delivered a
\* buddy_status_change event, has written the status the event carries to
\* the store before; and in the step in which a handler goes on from its
\* UPDATE to the fan-out, the store holds that status.
C19_WriteBeforeFanout ==
    /\ [](\A t \in tasks \cup {last} :
            (t.kind \in {"auth", "close"} /\ (t.pc \in {"sel", "fan"} \/ t.dlv # {})) =>
                t.wrote = statusOf(t))
    /\ [][ \A t \in tasks' \ tasks :
              (t.kind \in {"auth", "close"} /\ t.pc = "sel") =>
                  status'[t.u] = statusOf(t)
         ]_vars

\* a buddy has received the online event of a user whose status is online
\* in the store
C19_Witness ==
    /\ last.kind = "auth" /\ last.pc = "done" /\ last.dlv # {}
    /\ last.wrote = "online" /\ status[last.u] = "online"

\* C20: when a status_update message asking for online, away or busy is
\* handled on a live connection of user U, the store holds the requested
\* status for U and every buddy of U that has a live connection receives
\* the event.
C20_StatusUpdateBroadcast ==
    [][ \A c \in Conns, s \in StatusValues :
          ( /\ ws[c].readyState = "OPEN" /\ ws[c].isAuthenticated
            /\ OnMessage(c, StatusMsg(s)) ) =>
              /\ status'[ws[c].userId] = s
              /\ \A b \in Users :
                    BuddyEdge(ws[c].userId, b) => LiveConns(b) \subseteq last'.dlv
      ]_vars

\* a finished invocation of the router that persisted its row, for a
\* recipient that had a registered open connection when the router began
\* and has none at the delivery step
LostRecipient(t) ==
    RoutedWs(t) /\ t.row # 0 /\ ~t.off0 /\ Offline(t.to)

\* C21 as stated: when the recipient's connection closes or is deregistered
\* between the start of routing and the delivery step, the row stays
\* persisted, the sender receives the confirmation and no error, and
\* nothing is sent to the closed connection.
C21_RecipientGone ==
    LostRecipient(last) =>
        /\ \E m \in messages : m.id = last.row /\ m.from = last.u /\ m.to = last.to
        /\ last.out = Confirmation
        /\ last.dlv = {}

\* C21, amended: in that case the row stays persisted, nothing is sent to
\* the closed connection or to any other, the sender receives no error, and
\* a sender whose own connection is still open receives the confirmation.
C21_RecipientGoneSenderOpen ==
    LostRecipient(last) =>
        /\ \E m \in messages : m.id = last.row /\ m.from = last.u /\ m.to = last.to
        /\ (ws[last.c].readyState = "OPEN") => last.out = Confirmation
        /\ last.out \notin Errors
        /\ last.dlv = {}

\* the recipient's connection is still registered but was terminated by the
\* heartbeat while the router was at work; the sender has the confirmation
C21_Witness ==
    /\ LostRecipient(last)
    /\ getWebSocketConnection(last.to) # NoConn
    /\ ws[getWebSocketConnection(last.to)].readyState = "CLOSING"
    /\ last.out = Confirmation /\ ws[last.c].readyState = "OPEN"

\* the connections that were admitted, and those that were refused
Admitted == {c \in DOMAIN ws : ws[c].handlers}

Refused == {c \in DOMAIN ws : ws[c].readyState # "NONE" /\ ~ws[c].handlers}

\* C22: of the connections admitted from one address, at most 10 lie in any
\* window of one minute; a refused connection is closed at once, has no
\* message, heartbeat or close handler, no handler ever runs for it, and
\* the step that refuses it leaves the recorded attempts as they are.
C22_IpAdmission ==
    /\ [](\A c \in Admitted :
            Cardinality({k \in Admitted :
                            /\ ws[k].ip = ws[c].ip
                            /\ ws[k].at > ws[c].at - CONNECTION_WINDOW
                            /\ ws[k].at <= ws[c].at}) <= MAX_CONNECTIONS_PER_IP)
    /\ [](\A c \in Refused :
            /\ ws[c].readyState \in {"CLOSING", "CLOSED"}
            /\ ~ws[c].heartbeat /\ ~ws[c].isAuthenticated
            /\ \A t \in tasks \cup {last} : t.c # c)
    /\ [][ \A c \in DOMAIN ws :
              (ws[c].readyState = "NONE" /\ ws'[c].readyState # "NONE" /\ ~ws'[c].handlers) =>
                  /\ ws'[c].readyState = "CLOSING"
                  /\ connectionAttempts' = connectionAttempts
                  /\ tasks' = tasks /\ last' = Idle
         ]_vars

\* an address has had a connection refused with 10 admitted in the minute
\* before, and a later one admitted when the window had moved on
C22_Witness ==
    \E c \in Refused, k \in Admitted :
        /\ k > c
        /\ Cardinality({j \in Admitted : j < c /\ ws[j].ip = ws[c].ip})
              >= MAX_CONNECTIONS_PER_IP

\* the step in which a payload is refused because it does not parse or has
\* the wrong structure
MalformedStep == last'.kind = "gate" /\ last'.stage \in {"parse", "structure"}

\* C23: a payload that is not valid JSON, has no recognised type or has the
\* wrong shape for its type is refused for that; the step that refuses it
\* answers an open connection with one error reply and leaves every
\* connection, both registries, the counts, the rate counters, the stored
\* status, the message rows and the running handlers as they are.
C23_MalformedRefused ==
    /\ [][ \A c \in Conns, m \in MalformedMsgs : OnMessage(c, m) => MalformedStep ]_vars
    /\ [][ MalformedStep =>
              /\ ws' = ws
              /\ wsConnections' = wsConnections /\ connections' = connections
              /\ userConnections' = userConnections
              /\ messageRates' = messageRates /\ connectionAttempts' = connectionAttempts
              /\ status' = status /\ messages' = messages /\ nextMsgId' = nextMsgId
              /\ buddies' = buddies /\ blocks' = blocks
              /\ tasks' = tasks
              /\ (ws[last'.c].readyState = "OPEN") =>
                    last'.out \in {<<"error:invalid">>, <<"error:format">>}
         ]_vars

\* an authenticated open connection has been answered with the format error
\* for a private_message whose body is too long, after a ping was counted
C23_Witness ==
    /\ last.kind = "gate" /\ last.stage = "structure" /\ last.type = "private_message"
    /\ last.to # NoUser /\ last.out = <<"error:format">>
    /\ Live(last.c, Sender)
    /\ messageRates[<<"ip1", "ping">>] # <<>>

\* the position of a body in the order of submission, which is the order in
\* which the router began to process the messages
OrderOf(body) == CHOOSE i \in 1..Len(OrderBodies) : sanitized[OrderBodies[i]] = body

\* C24: when the sender submits each message only after the reply to the
\* one before, the rows of the pair are persisted in the order in which
\* the router began to process them, and when the incoming event of a
\* message is sent to the recipient no earlier message of the pair is still
\* with the router.
C24_SerialOrder ==
    /\ [](\A m1 \in messages, m2 \in messages :
            OrderOf(m1.body) < OrderOf(m2.body) => m1.id < m2.id)
    /\ [][ (last'.kind = "route" /\ last'.pc = "done" /\ last'.dlv # {}) =>
              \A t \in tasks' :
                  t.kind = "route" => OrderOf(sanitized[t.raw]) > OrderOf(last'.body)
         ]_vars

\* both messages are persisted in their order and the second has just been
\* delivered to the recipient, whose connection was open all the time
C24_Witness ==
    /\ \E m1 \in messages, m2 \in messages :
          m1.body = BodyHi /\ m2.body = BodyHo /\ m1.id < m2.id
    /\ last.kind = "route" /\ last.body = BodyHo /\ last.dlv # {}
    /\ \A c \in Conns : ws[c].readyState = "OPEN"

\* C25: no pair of users has a block edge, in either direction, and a buddy
\* edge at the same time.
C25_BlockExcludesBuddy ==
    \A a \in Users, b \in Users :
        (BlockEdge(a, b) \/ BlockEdge(b, a)) => ~BuddyEdge(a, b)

\* C26: the buddy rows are symmetric in every reachable state: the row
\* (a, b) exists if and only if the row (b, a) exists, whatever accept,
\* remove and block operations have run, failed ones included.
C26_BuddiesSymmetric ==
    \A a \in Users, b \in Users : (<<a, b>> \in buddies) <=> (<<b, a>> \in buddies)

\* an accept has failed after its INSERT: the request is still pending and
\* both rows of the pair exist
C26_Witness ==
    /\ last.kind = "accept" /\ last.stage = "query_failed"
    /\ requests[<<last.to, last.u>>] = "pending"
    /\ {<<last.to, last.u>>, <<last.u, last.to>>} \subseteq buddies
    /\ blocks = {}

\* C27: a persisted message row is never removed and its sender, recipient
\* and body never change; its read flag changes only from false to true.
C27_AppendOnly ==
    [][ \A m \in messages :
          \E m2 \in messages' :
              /\ m2.id = m.id /\ m2.from = m.from /\ m2.to = m.to /\ m2.body = m.body
              /\ m.read => m2.read
      ]_vars

\* C28: the router reports the first failing check in the order content,
\* buddy edge, block.  A body that fails the content check gets the content
\* error; a valid body of a sender without a buddy edge gets NotBuddies,
\* block edge or not; Blocked is reported only with a buddy edge and a
\* block edge, and is reported then.  In each case no row is inserted, an
\* open connection gets exactly that error, and the step that rejects
\* leaves every connection as it is.
C28_FirstFailingCheck ==
    /\ [](( /\ last.kind = "route" /\ last.pc = "done"
            /\ last.stage \notin {"unauthenticated", "insert_failed"} ) =>
            LET open == ws[last.c].readyState = "OPEN"
                expect == IF ~contentValid[last.raw] THEN <<"error:content">>
                          ELSE IF ~last.edge THEN <<"error:not_buddies">>
                          ELSE IF last.blk THEN <<"error:blocked">>
                          ELSE Confirmation
            IN  /\ last.out = IF open THEN expect ELSE <<>>
                /\ (expect \in Errors) => (last.row = 0 /\ last.dlv = {})
                /\ (last.out = <<"error:blocked">>) => (last.edge /\ last.blk))
    /\ [][ (last'.kind = "route" /\ last'.out \in Errors) =>
              (ws' = ws /\ messages' = messages /\ nextMsgId' = nextMsgId)
         ]_vars

\* a sender without a buddy edge, blocked by the recipient, has been told
\* NotBuddies on its open connection
C28_Witness ==
    /\ last.kind = "route" /\ last.out = <<"error:not_buddies">>
    /\ ~last.edge /\ last.blk1 /\ contentValid[last.raw]
    /\ ws[last.c].readyState = "OPEN" /\ messages = {}

\* C29: a user can be connected from several devices at once: when a
\* connection authenticates as a user who has a live connection already,
\* the earlier connection stays open and authenticated as that user.
C29_MultiDevice ==
    [][ \A c1 \in Conns, c2 \in Conns, u \in Users :
          ( /\ c1 # c2
            /\ Live(c1, u)
            /\ ~ws[c2].isAuthenticated
            /\ ws'[c2].isAuthenticated /\ ws'[c2].userId = u ) =>
              ( /\ ws'[c1].readyState = "OPEN"
                /\ ws'[c1].isAuthenticated /\ ws'[c1].userId = u )
      ]_vars


(* ------------------------------- C30 --------------------------------- *)
SweepStep == last'.kind = "sweep"

Swept(list) == list = <<>> \/ \E i \in 1..Len(list) : list[i] > now - SWEEP_HORIZON

\* C30: after each run of the sweep no key of connectionAttempts or of
\* messageRates is left whose timestamps are all an hour old or older, and
\* for every address and message type checkConnectionLimit and
\* checkMessageRateLimit give right after the sweep the result they gave
\* right before it, counting the same timestamps.
C30_SweepUnobservable ==
    [][SweepStep =>
         /\ \A ip \in Ips : Swept(connectionAttempts'[ip])
         /\ \A k \in RateKeys : Swept(messageRates'[k])
         /\ \A ip \in Ips :
               /\ checkConnectionLimit(ip)' = checkConnectionLimit(ip)
               /\ recentAttempts(ip)' = recentAttempts(ip)
         /\ \A ip \in Ips, type \in MsgTypes :
               /\ checkMessageRateLimit(ip, type)' = checkMessageRateLimit(ip, type)
               /\ recentMessages(ip, type)' = recentMessages(ip, type)]_vars

\* the sweep has dropped the hour-old connections of the address and kept
\* its typing indicators, which have reached their limit
C30_Witness ==
    /\ last.kind = "sweep"
    /\ now >= SWEEP_HORIZON
    /\ connectionAttempts["ip1"] = <<>>
    /\ messageRates[<<"ip1", "typing_start">>] # <<>>
    /\ ~checkMessageRateLimit("ip1", "typing_start")


(* ------------------------------- C31 --------------------------------- *)
\* C31: whatever the interleaving of a block or remove-buddy operation
\* with a private-message route, a message row from X to Y is inserted
\* only at a moment when Y has no block edge against X and a buddy edge
\* between X and Y exists.
C31_ChecksAndInsertAtomic ==
    [][\A m \in messages' \ messages :
          /\ ~BlockEdge(m.to, m.from)
          /\ BuddyEdge(m.from, m.to)]_vars


(* ------------------------------- C32 --------------------------------- *)
\* the 'close' event of c has been handled: the socket is closed and no
\* close handler of it is still running
CloseHandled(c) ==
    /\ ws[c].readyState = "CLOSED"
    /\ ~\E t \in tasks : t.kind = "close" /\ t.c = c

\* C32: whenever no handler is suspended, every entry of the registry maps
\* its user id to a connection that is open, authenticated and bound to
\* that user id; and no key of the registry refers to a connection whose
\* close event has been handled.
C32_NoStaleEntry ==
    /\ tasks = {} =>
          \A u \in Users : wsConnections[u] # NoConn => Live(wsConnections[u], u)
    /\ \A c \in Conns : CloseHandled(c) => \A u \in Users : wsConnections[u] # c

(* ------------------------------- C33 --------------------------------- *)
\* C33: whenever no handler is suspended, this.connections and wsConnections
\* have the same keys and map each user id to the same connection.
C33_MapsAgree ==
    tasks = {} => \A u \in Users : connections[u] = wsConnections[u]


(* ------------------------------- C34 --------------------------------- *)
\* the entities the escaping produces
Entities ==
    { <<"&","a","m","p",";">>, <<"&","l","t",";">>, <<"&","g","t",";">>,
      <<"&","q","u","o","t",";">>, <<"&","#","x","2","7",";">>,
      <<"&","#","x","2","F",";">> }

\* s has none of the five raw characters, and each of its & begins an entity
HtmlEscaped(s) ==
    /\ \A i \in 1..Len(s) : s[i] \notin {"<", ">", DQuote, Apos, "/"}
    /\ \A i \in 1..Len(s) :
          s[i] = "&" =>
             \E e \in Entities :
                /\ i + Len(e) - 1 <= Len(s)
                /\ SubSeq(s, i, i + Len(e) - 1) = e

\* C34: the row the router has persisted holds an HTML-escaped body (none
\* of < > " ' / raw, every & the start of an entity of the escaping), and
\* the confirmation and the incoming event of that invocation carry the
\* body of the stored row.
C34_EscapedEverywhere ==
    (RoutedWs(last) /\ last.row # 0) =>
        \E m \in messages :
            /\ m.id = last.row
            /\ HtmlEscaped(m.body)
            /\ last.msg = m.body

\* a text with markup has been stored, confirmed and delivered
C34_Witness ==
    /\ RoutedWs(last) /\ last.row # 0
    /\ last.raw = BodyMarkup
    /\ last.out = Confirmation
    /\ last.dlv # {}


(* ------------------------------- C35 --------------------------------- *)
\* C35: a chat body of at most 1000 characters that passes content
\* validation has a sanitised form of 1 to 1000 characters, so between
\* buddies without a block its INSERT is not rejected.
C35_ValidIsPersistable ==
    (RoutedWs(last) /\ Len(last.raw) <= MAX_BODY_LENGTH) =>
        /\ Len(last.body) >= 1 /\ Len(last.body) <= MAX_BODY_LENGTH
        /\ last.stage # "insert_failed"


(* ------------------------------- C36 --------------------------------- *)
\* the message handled in this step was refused by the rate limiter
RateRefusedStep == last'.kind = "gate" /\ last'.stage = "rate"

\* C36: a message the rate limiter refuses adds no timestamp; a pair of
\* address and type is refused only while exactly as many admitted messages
\* as the limit are inside the window, so it is admitted again when the
\* oldest of them has left it, and at the latest one window after its last
\* admitted message.
C36_RefusalsAreFree ==
    /\ [][RateRefusedStep => messageRates' = messageRates]_vars
    /\ [](\A ip \in Ips, type \in MsgTypes :
            LET list == messageRates[<<ip, type>>]
                recent == recentMessages(ip, type)
            IN  /\ ~checkMessageRateLimit(ip, type) =>
                      /\ Len(recent) = getMessageRateLimit(type)
                      /\ now - recent[1] < getMessageRateWindow(type)
                /\ (list # <<>> /\ now - list[Len(list)] >= getMessageRateWindow(type))
                      => checkMessageRateLimit(ip, type)
                /\ (Len(recent) = getMessageRateLimit(type)
                    /\ now - recent[1] >= getMessageRateWindow(type))
                      => checkMessageRateLimit(ip, type))

\* a typing indicator has been refused by the rate limiter at a time when
\* the oldest counted one is still inside the window and a newer one is too
C36_Witness ==
    /\ last.kind = "gate" /\ last.stage = "rate" /\ last.type = "typing_start"
    /\ \E ip \in Ips :
          /\ ~checkMessageRateLimit(ip, "typing_start")
          /\ recentMessages(ip, "typing_start")[1] < now


(* ------------------------------- C37 --------------------------------- *)
\* C37: the checks of an inbound message run in the order size, JSON
\* parse, structure, rate limit, and the first that fails ends the
\* handling: a message refused for its size, by the parser or for its
\* structure leaves the rate counters as they are, a message is refused at
\* a later check only when it passed the earlier ones, and a message the
\* rate limiter refuses starts no handler, changes no connection, registry
\* or count and no stored data, and is answered with the rate error only.
C37_FirstFailingGate ==
    [][(last'.kind = "gate") =>
         /\ (last'.stage = "size") <=> ~validateMessageSize(last'.size)
         /\ last'.stage \in {"size", "parse", "structure", "rate"}
         /\ (last'.stage = "parse") <=>
               (validateMessageSize(last'.size) /\ last'.type = "unparsable")
         /\ last'.stage \in {"size", "parse", "structure"} =>
               /\ messageRates' = messageRates
               /\ tasks' = tasks
               /\ UNCHANGED dbVars
         /\ last'.stage = "structure" =>
               (last'.type \notin MsgTypes \/ last'.to = NoUser)
         /\ last'.stage = "rate" =>
               /\ last'.type \in MsgTypes
               /\ ~checkMessageRateLimit(ws[last'.c].ip, last'.type)
               /\ tasks' = tasks
               /\ UNCHANGED <<connVars, dbVars, messageRates>>
               /\ last'.out \in {<<>>, <<"error:rate">>}]_vars

\* a typing indicator of the authenticated sender has been refused by the
\* rate limiter and the sender has the rate error
C37_Witness ==
    /\ last.kind = "gate" /\ last.stage = "rate" /\ last.type = "typing_start"
    /\ last.out = <<"error:rate">>
    /\ ws[last.c].isAuthenticated


(* ------------------------------- C38 --------------------------------- *)
\* C38: a typing indicator of the authenticated user A for B is forwarded
\* only when a buddy edge between A and B exists, then to B's open
\* registered connection with fromUserId = A; for a non-buddy nothing is
\* sent to anybody, and in both cases A gets no reply, no connection,
\* registry or count changes and no stored data changes.
C38_TypingOnlyToBuddies ==
    [][(last'.kind = "typing" /\ last'.pc = "done" /\ last'.stage # "unauthenticated") =>
         /\ last'.edge <=> BuddyEdge(last'.u, last'.to)
         /\ last'.dlv # {} => (last'.edge /\ last'.from = last'.u)
         /\ last'.edge => last'.dlv = recipientWs(last'.to)
         /\ last'.out = <<>>
         /\ UNCHANGED <<connVars, dbVars>>]_vars


(* ------------------------------- C39 --------------------------------- *)
\* C39: a buddy request is decided at most once: the status of a request
\* changes only from pending, to accepted or to rejected, and an accepted
\* or rejected request keeps its status whatever accept, reject and block
\* operations follow.
C39_DecidedOnce ==
    [][\A p \in DOMAIN requests :
          /\ requests[p] \in {"accepted", "rejected"} => requests'[p] = requests[p]
          /\ (requests[p] = "pending" /\ requests'[p] # "pending") =>
                requests'[p] \in {"accepted", "rejected"}]_vars
====
